---- MODULE Spec2Model ----
(***************************************************************************)
(* A model of the core of snakegram, an MTProto client library:            *)
(*   - the session state (snakegram/network/utils.py, class State):        *)
(*     msg_id and seqno generation;                                        *)
(*   - the request queue (class RequestQueue): resolve() packing requests  *)
(*     into frames behind the handshake gate;                              *)
(*   - the update dispatcher (snakegram/core/methods/updates.py): the      *)
(*     pts/qts/seq gap detection and the difference fetchers.              *)
(* Three specifications share the variables: SpecState drives the session  *)
(* state alone, SpecQueue the request queue, SpecUpdates the dispatcher.   *)
(***************************************************************************)
EXTENDS Integers, Sequences, FiniteSets, TLC

(***************************************************************************)
(* Bounds of the model.                                                    *)
(***************************************************************************)
\* clock readings (seconds of server time) are drawn from 0..MaxTime
MaxTime == 1
\* the source shifts the server time left by 32 bits; the model shifts it by
\* MsgIdShift bits, so that ids stay small and the clock and the
\* last_msg_id + 1 branches of generate_msg_id both occur
MsgIdShift == 3
\* generate_msg_id / generate_seq_no calls recorded per session in SpecState
MaxCalls == 4
\* Request objects created in SpecQueue
NumReq == 2
\* frames recorded in SpecQueue
MaxFrames == 3

\* channels with an update state (StateIds are 0, the common state, and 1..NumChan)
NumChan == 1
\* pts and qts values of updates and of server states are drawn from 1..MaxPts
MaxPts == 3
\* seq values of batches and of server states are drawn from 0..MaxSeq
MaxSeq == 2
\* difference fetches in flight at once
MaxFetch == 2
\* updates one dispatcher step hands to the update handlers
MaxDelivered == 3
\* dispatcher steps (arrivals, timers, RPC answers) in one run of SpecUpdates
MaxSteps == 4
NumEntities == 3
MaxCache == 2

(***************************************************************************)
(* Program constants.                                                      *)
(***************************************************************************)
MIN_SIZE_GZIP == 512
MAX_CONTAINER_LENGTH == 512
\* the date get_state() reports when the session store holds none
DEFAULT_STATE_DATE == 1
\* StateId(None), the id of the common update state
COMMON == 0

VARIABLES
    \* ---- class State
    last_msg_id,      \* State._last_msg_id
    last_msg_seqno,   \* State._last_msg_seqno
    handshake,        \* State._handshake_event.is_set()
    \* ---- history of one session, for SpecState
    ids,              \* the ids generate_msg_id returned, in call order
    seqs,             \* <<content_related, seqno>> of each generate_seq_no call
    \* ---- class RequestQueue and the Request objects
    requests,         \* the Request objects created so far, by identity 1..Len
    deque,            \* RequestQueue._deque: identities of queued requests
    wpc,              \* the writer inside resolve(): "idle" or "loop"
    length,           \* resolve(): the local length
    buffer,           \* resolve(): the local buffer of <<request, message>>
    frame,            \* what the last resolve() returned (kind "none" before)
    sent,             \* the outer msg_id of every frame resolve() returned
    returned,         \* per request, how many times resolve() returned it
    \* ---- the update dispatcher (class Updates)
    live,             \* the keys of Updates._update_states
    info,             \* per StateId, its UpdateState.state_info (pts, qts, seq, date)
    store,            \* the session store: set_state / set_channel_pts
    pending,          \* per StateId, the reordering buffer of its UpdateState
    timer,            \* per StateId, whether its debounced fetch is scheduled
    fetches,          \* the difference fetches suspended on their RPC
    delivered,        \* the updates the last dispatcher step handed to the
                      \* update handlers, in order
    trace,            \* the single-update calls of the last dispatcher step
    steps,            \* the number of dispatcher steps taken
    \* ---- Telegram.__call__ (core/telegram.py)
    stack,            \* the __call__ activations, the innermost last
    dc_id,            \* the data center of the session
    auth_key,         \* the auth key of the session, by the count of handshakes
    authorized,       \* Telegram._authorized
    migrations,       \* the dc of every connection.migrate call, in order
    resends,          \* the query of every connection.resend call, in order
    observed,         \* what the caller of the outermost __call__ got
    \* ---- the event handlers (core/handlers.py)
    handlers,         \* per event type, the registered handlers in order
    hlog,             \* what the last dispatched event did
    \* ---- the server salts
    salt,             \* State._salt
    salt_valid_until, \* State._salt_valid_until
    salts,            \* the rows of the server-salts table of the session
    salt_log,         \* the last read of a salt and what it returned
    \* ---- the entity cache
    entities,         \* CacheEntities: the cached entities, oldest use first
    entity_rows       \* the entities table of the session, per entity id

stateVars == <<last_msg_id, last_msg_seqno, handshake>>
histVars  == <<ids, seqs>>
queueVars == <<requests, deque, wpc, length, buffer, frame, sent, returned>>
callVars  == <<stack, dc_id, auth_key, authorized, migrations, resends, observed>>
updVars   == <<live, info, store, pending, timer, fetches, delivered, trace,
               steps>>
\* the variables outside the session state, the request queue and the
\* update dispatcher
hdlVars   == <<handlers, hlog>>
cacheVars == <<salt, salt_valid_until>>
saltVars  == <<salts, salt_log>>
\* the variables State.reset and State.handshake_completed leave alone
entVars   == <<entities, entity_rows>>
restVars  == <<callVars, hdlVars, saltVars, entVars>>
moreVars  == <<restVars, cacheVars>>
vars == <<stateVars, histVars, queueVars, updVars, moreVars>>

(***************************************************************************)
(* class State                                                             *)
(***************************************************************************)
\* while msg_id % 4 != 0: msg_id += 1
RECURSIVE RoundUp4(_)
RoundUp4(m) == IF m % 4 # 0 THEN RoundUp4(m + 1) ELSE m

\* generate_msg_id comparing with < : a clock that stands still repeats an id
generate_msg_id_lt(server_time, last) ==
    LET msg_id == server_time * 2^MsgIdShift
    IN  RoundUp4(IF msg_id < last THEN last + 1 ELSE msg_id)

\* State.generate_msg_id: the id it returns (and stores in _last_msg_id) for
\* the clock reading server_time and the current _last_msg_id
generate_msg_id(server_time, last) ==
    LET msg_id == server_time * 2^MsgIdShift
    IN  RoundUp4(IF msg_id <= last THEN last + 1 ELSE msg_id)

\* State.generate_seq_no: the seqno it returns
generate_seq_no(counter, content_related) ==
    IF content_related THEN counter * 2 + 1 ELSE counter * 2

\* generate_seq_no counting every message, content-related or not
next_seq_counter_all(counter, content_related) == counter + 1

\* State.generate_seq_no: the counter it leaves in _last_msg_seqno
next_seq_counter(counter, content_related) ==
    IF content_related THEN counter + 1 ELSE counter

NoFrame == [kind |-> "none", msg_id |-> 0, seqno |-> 0, container |-> FALSE,
            gzip |-> FALSE,
            requests |-> <<>>, messages |-> <<>>, queries |-> <<>>]

StateIds == COMMON..NumChan

\* a state_info that holds nothing yet
NoInfo == [pts |-> 0, qts |-> 0, seq |-> 0, date |-> 0]

Init ==
    /\ last_msg_id = 0
    /\ last_msg_seqno = 0
    /\ handshake = FALSE
    /\ ids = <<>>
    /\ seqs = <<>>
    /\ requests = <<>>
    /\ deque = <<>>
    /\ wpc = "idle"
    /\ length = 0
    /\ buffer = <<>>
    /\ frame = NoFrame
    /\ sent = <<>>
    /\ returned = <<>>
    /\ live = {}
    /\ info = [sid \in StateIds |-> NoInfo]
    /\ store = [sid \in StateIds |-> NoInfo]
    /\ pending = [sid \in StateIds |-> {}]
    /\ timer = [sid \in StateIds |-> FALSE]
    /\ fetches = <<>>
    /\ delivered = <<>>
    /\ trace = <<>>
    /\ steps = 0
    /\ stack = <<>>
    /\ dc_id = 1
    /\ auth_key = 0
    /\ authorized = FALSE
    /\ migrations = <<>>
    /\ resends = <<>>
    /\ observed = <<>>
    /\ handlers = [kind \in {"update", "global_update", "error", "result",
                               "request"} |-> <<>>]
    /\ hlog = [event |-> "none", fut |-> [state |-> "pending",
                                          value |-> [name |-> "", rpc |-> FALSE]],
               ran |-> <<>>, calls |-> 0, log_info |-> FALSE,
               escaped |-> "none", queued |-> FALSE]
    /\ salt = 0
    /\ salt_valid_until = 0
    /\ salts = {}
    /\ salt_log = [op |-> "none", now |-> 0, before |-> 0, value |-> 0,
                   valid_until |-> 0]
    /\ entities = <<>>
    /\ entity_rows = [id \in 1..NumEntities |-> [row |-> FALSE, access_hash |-> 0]]

(***************************************************************************)
(* SpecState: any sequence of generate_msg_id, generate_seq_no and reset   *)
(* calls on one State object, with any clock.                              *)
(***************************************************************************)
GenerateMsgId ==
    /\ Len(ids) < MaxCalls
    /\ \E server_time \in 0..MaxTime :
         LET id == generate_msg_id(server_time, last_msg_id)
         IN  /\ last_msg_id' = id
             /\ ids' = Append(ids, id)
    /\ UNCHANGED <<last_msg_seqno, handshake, seqs, queueVars, updVars, moreVars>>

GenerateSeqNo ==
    /\ Len(seqs) < MaxCalls
    /\ \E content_related \in BOOLEAN :
         /\ seqs' = Append(seqs, <<content_related,
                                   generate_seq_no(last_msg_seqno, content_related)>>)
         /\ last_msg_seqno' = next_seq_counter(last_msg_seqno, content_related)
    /\ UNCHANGED <<last_msg_id, handshake, ids, queueVars, updVars, moreVars>>

\* State.reset starts a new session: the histories restart with it
Reset ==
    /\ ids # <<>> \/ seqs # <<>>
    /\ last_msg_id' = 0
    /\ last_msg_seqno' = 0
    /\ handshake' = FALSE
    /\ ids' = <<>>
    /\ seqs' = <<>>
    /\ salt' = 0
    /\ salt_valid_until' = 0
    /\ UNCHANGED <<queueVars, updVars, restVars>>

NextState == GenerateMsgId \/ GenerateSeqNo \/ Reset

SpecState == Init /\ [][NextState]_vars

(***************************************************************************)
(* class RequestQueue                                                      *)
(*                                                                         *)
(* A Request is [query, msg_id, container_id, invoke_after, outcome]; its  *)
(* identity is its index in requests.  msg_id, container_id and            *)
(* invoke_after are 0 for None (generate_msg_id never returns 0).  outcome *)
(* is the state of the future: "pending" until it is completed.            *)
(***************************************************************************)
Queries == {"ReqPqMulti", "ReqDHParams", "SetClientDHParams",
            "BindTempAuthKey", "GetState", "MsgsAck"}

\* len(query.to_bytes()) and the length of its gzip-packed form: inputs
BodySizes == {48, 600}
PackedSizes == {300, 700}

\* is_unencrypted_request accepting every function, API calls included
is_unencrypted_request_any(query) ==
    query \in {"ReqPqMulti", "ReqDHParams", "SetClientDHParams", "GetState"}

is_unencrypted_request(query) ==
    query \in {"ReqPqMulti", "ReqDHParams", "SetClientDHParams"}

is_content_related(query) ==
    query \notin {"MsgCopy", "MsgsAck", "GzipPacked", "MsgContainer"}

\* mutant of to_message: the packed form is used whenever it was computed
to_message_packed(id, body_len, packed_len, content_related, counter) ==
    LET gz == MIN_SIZE_GZIP < body_len /\ content_related
    IN  [msg_id |-> id,
         seqno  |-> generate_seq_no(counter, content_related),
         bytes  |-> IF gz THEN packed_len ELSE body_len,
         gzip   |-> gz]

\* resolve.to_message: the mtproto Message built for a body of body_len
\* bytes whose gzip-packed form has packed_len bytes
to_message(id, body_len, packed_len, content_related, counter) ==
    LET gz == MIN_SIZE_GZIP < body_len /\ content_related /\ body_len > packed_len
    IN  [msg_id |-> id,
         seqno  |-> generate_seq_no(counter, content_related),
         bytes  |-> IF gz THEN packed_len ELSE body_len,
         gzip   |-> gz]

Done(r) == requests[r].outcome # "pending"

\* Request.set_exception for an exception that is no RpcError: the future
\* fails unless it is already done
set_exception(req, exception) ==
    IF req.outcome = "pending" THEN [req EXCEPT !.outcome = exception] ELSE req

\* the history of returned frames, extended by frame f
Record(f) ==
    /\ frame' = f
    /\ sent' = Append(sent, f.msg_id)
    /\ returned' = [r \in 1..Len(returned) |->
          IF \E i \in 1..Len(f.requests) : f.requests[i] = r
          THEN returned[r] + 1 ELSE returned[r]]

InDeque(r) == \E i \in 1..Len(deque) : deque[i] = r
InBuffer(r) == \E i \in 1..Len(buffer) : buffer[i].request = r

\* RequestQueue.add with a new Request and no pre-send handler:
\* _request_callback_process extends the deque with it.  An ordered invoke
\* chains a request after the one created before it.
Add ==
    /\ Len(requests) < NumReq
    /\ \E query \in Queries, after \in {0, Len(requests)} :
         /\ after # 0 => query \in {"GetState", "MsgsAck"}
         /\ requests' = Append(requests,
               [query |-> query, msg_id |-> 0, container_id |-> 0,
                invoke_after |-> after, outcome |-> "pending"])
    /\ deque' = Append(deque, Len(requests) + 1)
    /\ returned' = Append(returned, 0)
    /\ UNCHANGED <<stateVars, histVars, wpc, length, buffer, frame, sent, updVars, moreVars>>

\* RequestQueue.add with a Request that resolve() has returned before and
\* that is not done (a request that has to be sent again): it enters the
\* deque with the msg_id it was given
Requeue(r) ==
    /\ r \in 1..Len(requests)
    /\ returned[r] > 0
    /\ ~InDeque(r) /\ ~InBuffer(r)
    /\ ~Done(r)
    /\ deque' = Append(deque, r)
    /\ UNCHANGED <<stateVars, histVars, requests, wpc, length, buffer, frame,
                   sent, returned, updVars, moreVars>>

\* State.start_handshake / State.handshake_completed
StartHandshake ==
    /\ handshake
    /\ handshake' = FALSE
    /\ UNCHANGED <<last_msg_id, last_msg_seqno, histVars, queueVars, updVars, moreVars>>

HandshakeCompleted ==
    /\ ~handshake
    /\ handshake' = TRUE
    /\ salt_valid_until' = 0
    /\ UNCHANGED <<last_msg_id, last_msg_seqno, histVars, queueVars, updVars,
                   restVars, salt>>

\* mutant: the query asks for valid_since only
get_server_salt_started(table, now) ==
    LET valid == {r \in table : r.valid_since < now}
    IN  IF valid = {} THEN {<<0, 0>>}
        ELSE {<<r.salt, r.valid_until>> : r \in valid}

\* BaseSqlite.get_server_salt: the pairs the query may return.  The SELECT
\* has LIMIT 1 and no ORDER BY, so any valid row can be the one.
get_server_salt(table, now) ==
    LET valid == {r \in table : r.valid_since < now /\ r.valid_until > now}
    IN  IF valid = {} THEN {<<0, 0>>}
        ELSE {<<r.salt, r.valid_until>> : r \in valid}

\* State.get_server_salt: the cache after the call and the value returned
State_get_server_salt(cached, cached_until, table, now) ==
    IF cached_until <= now
    THEN {[salt |-> p[1], salt_valid_until |-> p[2], value |-> p[1]] :
             p \in get_server_salt(table, now)}
    ELSE {[salt |-> cached, salt_valid_until |-> cached_until, value |-> cached]}

\* sum of 16 + message.bytes over the buffer, as the container's body
RECURSIVE ContainerBytes(_)
ContainerBytes(buf) ==
    IF buf = <<>> THEN 8
    ELSE 16 + Head(buf).message.bytes + ContainerBytes(Tail(buf))

\* mutant of Frame: the container takes the msg_id of its first message
Frame_reuse(buf, server_time, last, counter) ==
    LET container_id == IF Len(buf) = 1 THEN 0 ELSE buf[1].message.msg_id
        message_body == IF container_id # 0
                        THEN to_message(container_id, ContainerBytes(buf), 0,
                                        FALSE, counter)
                        ELSE buf[1].message
    IN  [kind      |-> "encrypted",
         msg_id    |-> message_body.msg_id,
         seqno     |-> message_body.seqno,
         container |-> container_id # 0,
         gzip      |-> message_body.gzip,
         requests  |-> [i \in 1..Len(buf) |-> buf[i].request],
         messages  |-> [i \in 1..Len(buf) |->
                          [msg_id |-> buf[i].message.msg_id,
                           seqno  |-> buf[i].message.seqno,
                           gzip   |-> buf[i].message.gzip]],
         queries   |-> [i \in 1..Len(buf) |-> buf[i].query]]

\* resolve(), from "# container" to its return: the frame built from buf
\* when the last id was last and the seqno counter is counter, with
\* server_time the clock reading of the container's generate_msg_id
Frame(buf, server_time, last, counter) ==
    LET container_id == IF Len(buf) = 1 THEN 0
                        ELSE generate_msg_id(server_time, last)
        message_body == IF container_id # 0
                        THEN to_message(container_id, ContainerBytes(buf), 0,
                                        FALSE, counter)
                        ELSE buf[1].message
    IN  [kind      |-> "encrypted",
         msg_id    |-> message_body.msg_id,
         seqno     |-> message_body.seqno,
         container |-> container_id # 0,
         gzip      |-> message_body.gzip,
         requests  |-> [i \in 1..Len(buf) |-> buf[i].request],
         messages  |-> [i \in 1..Len(buf) |->
                          [msg_id |-> buf[i].message.msg_id,
                           seqno  |-> buf[i].message.seqno,
                           gzip   |-> buf[i].message.gzip]],
         queries   |-> [i \in 1..Len(buf) |-> buf[i].query]]

\* the tail of resolve(): builds the frame, sets container_id on the
\* requests of a container, returns
Emit(reqs, buf, last, counter) ==
    \E server_time \in 0..MaxTime :
      LET f == Frame(buf, server_time, last, counter)
      IN  /\ Record(f)
          /\ requests' = [r \in 1..Len(reqs) |->
                IF f.container /\ (\E i \in 1..Len(buf) : buf[i].request = r)
                THEN [reqs[r] EXCEPT !.container_id = f.msg_id]
                ELSE reqs[r]]
          /\ last_msg_id' = IF f.container THEN f.msg_id ELSE last
          /\ last_msg_seqno' = counter
          /\ wpc' = "idle"
          /\ length' = 0
          /\ buffer' = <<>>
          /\ \E now \in 0..MaxTime :
             \E o \in State_get_server_salt(salt, salt_valid_until, salts, now) :
                /\ salt' = o.salt
                /\ salt_valid_until' = o.salt_valid_until

\* mutant: resolve() gives every request it pops a new msg_id
resolve_msg_id_fresh(msg_id, server_time, last) ==
    generate_msg_id(server_time, last)

\* resolve(): "if request.msg_id is None: request.set_msg_id(...)", the
\* msg_id of the request afterwards (0 stands for None)
resolve_msg_id(msg_id, server_time, last) ==
    IF msg_id = 0 THEN generate_msg_id(server_time, last) ELSE msg_id

\* mutant of wrap_query: the wrapper names the request's own msg_id
wrap_query_self(request, reqs) ==
    IF request.invoke_after # 0
    THEN <<"InvokeAfterMsg", request.msg_id, request.query>>
    ELSE <<request.query>>

\* resolve(): a query whose request has invoke_after is wrapped in
\* InvokeAfterMsg(request.invoke_after.msg_id, query)
wrap_query(request, reqs) ==
    IF request.invoke_after # 0
    THEN <<"InvokeAfterMsg", reqs[request.invoke_after].msg_id, request.query>>
    ELSE <<request.query>>

\* query.to_bytes() of the InvokeAfterMsg built around a msg_id of None: the
\* generated serializer is not among the sources, it may raise or write
\* some bytes; every other query is serialized
ToBytesRaises(request, reqs) ==
    IF request.invoke_after # 0 /\ reqs[request.invoke_after].msg_id = 0
    THEN BOOLEAN ELSE {FALSE}

\* one turn of the loop of resolve(): get() pops the next request (the first
\* get of a call waits for one), the request gets a msg_id if it has none,
\* passes the handshake gate, is serialized and joins the buffer
ResolvePop ==
    /\ Len(sent) < MaxFrames
    /\ deque # <<>>
    /\ wpc = "loop" => length < MAX_CONTAINER_LENGTH
    /\ \E server_time \in 0..MaxTime, body_len \in BodySizes, packed_len \in PackedSizes :
       \E to_bytes_raises \in ToBytesRaises(requests[Head(deque)], requests) :
         LET r       == Head(deque)
             request == requests[r]
             msg_id  == resolve_msg_id(request.msg_id, server_time, last_msg_id)
             last    == IF request.msg_id = 0 THEN msg_id ELSE last_msg_id
             req1    == [request EXCEPT !.msg_id = msg_id]
             query   == request.query
             is_bind_request == ~handshake /\ query = "BindTempAuthKey"
         IN
         /\ deque' = Tail(deque)
         /\ IF ~handshake /\ ~is_bind_request
            THEN \* the handshake gate: an unencrypted message is returned
                 /\ requests' = [requests EXCEPT ![r] =
                       IF ~is_unencrypted_request(query)
                       THEN set_exception(req1, "SecurityError")
                       ELSE req1]
                 /\ Record([kind |-> "unencrypted", msg_id |-> msg_id,
                            seqno |-> 0, container |-> FALSE, gzip |-> FALSE,
                            requests |-> <<r>>, messages |-> <<>>,
                            queries |-> <<<<query>>>>])
                 /\ last_msg_id' = last
                 /\ wpc' = "idle"
                 /\ length' = 0
                 /\ buffer' = <<>>
                 /\ UNCHANGED <<last_msg_seqno, cacheVars>>
            ELSE LET cr      == is_content_related(query)
                     message == to_message(msg_id, body_len, packed_len, cr,
                                           last_msg_seqno)
                     counter == next_seq_counter(last_msg_seqno, cr)
                     len1    == length + 16 + message.bytes
                     buf1    == Append(buffer,
                                  [request |-> r, message |-> message,
                                   query |-> wrap_query(req1, requests)])
                     reqs1   == [requests EXCEPT ![r] = req1]
                 IN  IF to_bytes_raises
                     THEN \* resolve() ends with the error, its buffer is gone
                          /\ requests' = reqs1
                          /\ last_msg_id' = last
                          /\ wpc' = "idle"
                          /\ length' = 0
                          /\ buffer' = <<>>
                          /\ UNCHANGED <<last_msg_seqno, frame, sent, returned,
                                         cacheVars>>
                     ELSE IF is_bind_request \/ ~(len1 < MAX_CONTAINER_LENGTH)
                     THEN Emit(reqs1, buf1, last, counter)
                     ELSE /\ requests' = reqs1
                          /\ last_msg_id' = last
                          /\ last_msg_seqno' = counter
                          /\ wpc' = "loop"
                          /\ length' = len1
                          /\ buffer' = buf1
                          /\ UNCHANGED <<frame, sent, returned, cacheVars>>
    /\ UNCHANGED <<handshake, histVars, updVars, restVars>>

\* get(wait=False) finds the deque empty: QueueEmpty ends the loop
ResolveQueueEmpty ==
    /\ wpc = "loop"
    /\ deque = <<>>
    /\ Emit(requests, buffer, last_msg_id, last_msg_seqno)
    /\ UNCHANGED <<handshake, histVars, deque, updVars, restVars>>

NextQueue ==
    \/ Add
    \/ \E r \in 1..NumReq : Requeue(r)
    \/ StartHandshake
    \/ HandshakeCompleted
    \/ ResolvePop
    \/ ResolveQueueEmpty

SpecQueue == Init /\ [][NextQueue]_vars

(***************************************************************************)
(* The update dispatcher (snakegram/core/methods/updates.py, class         *)
(* Updates).                                                               *)
(*                                                                         *)
(* An update is [type, id, pts, pts_count, qts, channel_id]; 0 stands for  *)
(* an attribute the update does not carry (getattr(update, 'pts', None),   *)
(* a channel id of None).  id tells the messages apart.                    *)
(* The handlers of the source run to completion between two awaits of an   *)
(* RPC, so each is an operator from the dispatcher's state d (a record of  *)
(* the dispatcher variables) to the state it leaves behind; the actions    *)
(* below apply them to the current state.                                  *)
(* The class UpdateState (core/internal/update_state.py) is not among the  *)
(* sources; its operations add, process_update and destroy and its fetch   *)
(* task are modelled from the specification text and are marked so.        *)
(***************************************************************************)
UpdateNewMessage(id, pts, pts_count) ==
    [type |-> "UpdateNewMessage", id |-> id, pts |-> pts,
     pts_count |-> pts_count, qts |-> 0, channel_id |-> 0]

UpdateNewChannelMessage(id, pts, pts_count, channel_id) ==
    [type |-> "UpdateNewChannelMessage", id |-> id, pts |-> pts,
     pts_count |-> pts_count, qts |-> 0, channel_id |-> channel_id]

UpdateNewEncryptedMessage(id, qts) ==
    [type |-> "UpdateNewEncryptedMessage", id |-> id, pts |-> 0,
     pts_count |-> 0, qts |-> qts, channel_id |-> 0]

\* an update with neither pts nor qts
UpdateUserStatus ==
    [type |-> "UpdateUserStatus", id |-> 0, pts |-> 0,
     pts_count |-> 0, qts |-> 0, channel_id |-> 0]

\* UpdateChannelTooLong: pts is optional (0 for None), there is no pts_count
UpdateChannelTooLong(channel_id, pts) ==
    [type |-> "UpdateChannelTooLong", id |-> 0, pts |-> pts,
     pts_count |-> 0, qts |-> 0, channel_id |-> channel_id]

\* the pts_count values of the updates the server sends
PtsCounts == {1, 2}

\* the updates the server sends with a pts
PtsUpdates ==
    {UpdateNewMessage(p, p, c) : p \in 1..MaxPts, c \in PtsCounts}
      \cup {UpdateNewChannelMessage(p, p, 1, ch) : p \in 1..MaxPts, ch \in 1..NumChan}

QtsUpdates == {UpdateNewEncryptedMessage(q, q) : q \in 1..MaxPts}

TooLongUpdates ==
    {UpdateChannelTooLong(ch, p) : ch \in 1..NumChan, p \in 0..MaxPts}

AllUpdates == PtsUpdates \cup QtsUpdates \cup {UpdateUserStatus}

\* the updates of a channel
ChannelUpdates ==
    {UpdateNewChannelMessage(p, p, 1, ch) : p \in 1..MaxPts, ch \in 1..NumChan}
      \cup TooLongUpdates

\* helpers.get_update_channel_id: the state an update belongs to
get_update_channel_id(update) == update.channel_id

\* helpers.update_order_key: where an update starts in its sequence
update_order_key(update) ==
    IF update.pts # 0 THEN update.pts - update.pts_count
    ELSE IF update.qts # 0 THEN update.qts - 1
    ELSE 0

\* the current state of the dispatcher, at the start of a step
Cur ==
    [live |-> live, info |-> info, store |-> store, pending |-> pending,
     timer |-> timer, fetches |-> fetches, delivered |-> <<>>,
     trace |-> <<>>]

\* SqliteSession.get_state / get_channel_pts
get_state(d, sid) ==
    IF sid = COMMON
    THEN [pts |-> d.store[sid].pts, qts |-> d.store[sid].qts,
          seq |-> d.store[sid].seq,
          date |-> IF d.store[sid].date # 0 THEN d.store[sid].date
                   ELSE DEFAULT_STATE_DATE]
    ELSE [pts |-> d.store[sid].pts, qts |-> 0, seq |-> 0, date |-> 0]

\* SqliteSession.set_state keeps the stored value where the new one is 0
\* ("pts or self._pts"); set_channel_pts stores the pts
set_state(old, new, sid) ==
    IF sid = COMMON
    THEN [pts  |-> IF new.pts # 0 THEN new.pts ELSE old.pts,
          qts  |-> IF new.qts # 0 THEN new.qts ELSE old.qts,
          seq  |-> IF new.seq # 0 THEN new.seq ELSE old.seq,
          date |-> IF new.date # 0 THEN new.date ELSE old.date]
    ELSE [old EXCEPT !.pts = new.pts]

\* Updates._save_state
save_state(d, sid, state_info) ==
    [d EXCEPT !.store[sid] = set_state(@, state_info, sid)]

\* Updates._get_update_state: the UpdateState of sid, created from the
\* session store on first use
get_update_state(d, sid) ==
    IF sid \in d.live THEN d
    ELSE [d EXCEPT !.live = @ \cup {sid}, !.info[sid] = get_state(d, sid)]

\* a fetch launched by the UpdateState's own task is running for sid
OwnFetchRunning(d, sid) ==
    \E i \in 1..Len(d.fetches) :
        d.fetches[i].sid = sid /\ d.fetches[i].origin = "timer"

\* UpdateState.add: buffer the update and schedule the debounced fetch,
\* unless the state's fetch is already running
us_add(d, sid, update) ==
    [d EXCEPT !.pending[sid] = @ \cup {update},
              !.timer[sid] = ~OwnFetchRunning(d, sid)]

\* UpdateState.process_update: the update is settled, it leaves the buffer
us_process_update(d, sid, update) ==
    [d EXCEPT !.pending[sid] = @ \ {update}]

\* UpdateState.destroy: cancel the scheduled fetch
us_destroy(d, sid) ==
    [d EXCEPT !.timer[sid] = FALSE]

\* one more entry in the record of the single-update calls of this step:
\* the update, the branch it took and the local pts or qts it met
Traced(d, path, update, local) ==
    [d EXCEPT !.trace = Append(@, [path |-> path, update |-> update,
                                   local |-> local])]

\* a fetch suspended on its RPC: the locals of the coroutine, and what the
\* coroutine awaiting it does when it returns: then holds the update
\* _process_update hands to the handlers, rest the buffered updates still
\* to be replayed, too_long the answer of GetState that
\* _handle_updates_too_long holds while it awaits the fetch
FetchTask(sid, state_info, await, origin) ==
    [sid |-> sid, pts |-> state_info.pts, qts |-> state_info.qts,
     seq |-> state_info.seq, date |-> state_info.date,
     await |-> await, origin |-> origin, then |-> <<>>, rest |-> {},
     too_long |-> NoInfo]

\* Updates._fetch_channel_difference up to its first await of
\* GetChannelDifference
fetch_channel_difference(d, sid, origin) ==
    [us_destroy(d, sid) EXCEPT
        !.fetches = Append(@, FetchTask(sid, d.info[sid],
                                        "GetChannelDifference", origin))]

\* Updates._process_update: hand the update to the update handlers; for an
\* UpdateChannelTooLong the channel difference is fetched first, and the
\* update is handed over when the fetch has returned
process_update(d, update) ==
    IF update.type = "UpdateChannelTooLong"
    THEN LET channel_id == get_update_channel_id(update)
             d1 == fetch_channel_difference(get_update_state(d, channel_id),
                                            channel_id, "direct")
         IN  [d1 EXCEPT !.fetches[Len(d1.fetches)].then = <<update>>]
    ELSE [d EXCEPT !.delivered = Append(@, update)]

\* mutant of handle_pts_update: a state without pts does not apply
handle_pts_update_noinit(d, update) ==
    LET channel_id == get_update_channel_id(update)
        d0 == get_update_state(d, channel_id)
        pts == update.pts
        local_pts == d0.info[channel_id].pts
        pts_count == update.pts_count
    IN  IF local_pts + pts_count = pts
        THEN process_update(
                 us_process_update(
                     [Traced(d0, "apply", update, local_pts) EXCEPT
                         !.info[channel_id].pts = pts],
                     channel_id, update),
                 update)
        ELSE IF local_pts + pts_count > pts
        THEN us_process_update(Traced(d0, "discard", update, local_pts),
                               channel_id, update)
        ELSE us_add(Traced(d0, "gap", update, local_pts), channel_id, update)

\* mutant of handle_pts_update: the gap and the already-applied branches
\* swapped
handle_pts_update_swapped(d, update) ==
    LET channel_id == get_update_channel_id(update)
        d0 == get_update_state(d, channel_id)
        pts == update.pts
        local_pts == d0.info[channel_id].pts
        pts_count == update.pts_count
    IN  IF local_pts = 0 \/ local_pts + pts_count = pts
        THEN process_update(
                 us_process_update(
                     [Traced(d0, "apply", update, local_pts) EXCEPT
                         !.info[channel_id].pts = pts],
                     channel_id, update),
                 update)
        ELSE IF local_pts + pts_count < pts
        THEN us_process_update(Traced(d0, "discard", update, local_pts),
                               channel_id, update)
        ELSE us_add(Traced(d0, "gap", update, local_pts), channel_id, update)

\* mutant of handle_pts_update: an update at or below the local pts applies
handle_pts_update_geq(d, update) ==
    LET channel_id == get_update_channel_id(update)
        d0 == get_update_state(d, channel_id)
        pts == update.pts
        local_pts == d0.info[channel_id].pts
        pts_count == update.pts_count
    IN  IF local_pts = 0 \/ local_pts + pts_count >= pts
        THEN process_update(
                 us_process_update(
                     [Traced(d0, "apply", update, local_pts) EXCEPT
                         !.info[channel_id].pts = pts],
                     channel_id, update),
                 update)
        ELSE IF local_pts + pts_count > pts
        THEN us_process_update(Traced(d0, "discard", update, local_pts),
                               channel_id, update)
        ELSE us_add(Traced(d0, "gap", update, local_pts), channel_id, update)

\* Updates._handle_pts_update
handle_pts_update(d, update) ==
    LET channel_id == get_update_channel_id(update)
        d0 == get_update_state(d, channel_id)
        pts == update.pts
        local_pts == d0.info[channel_id].pts
        pts_count == update.pts_count
    IN  IF local_pts = 0 \/ local_pts + pts_count = pts
        THEN process_update(
                 us_process_update(
                     [Traced(d0, "apply", update, local_pts) EXCEPT
                         !.info[channel_id].pts = pts],
                     channel_id, update),
                 update)
        ELSE IF local_pts + pts_count > pts
        THEN us_process_update(Traced(d0, "discard", update, local_pts),
                               channel_id, update)
        ELSE us_add(Traced(d0, "gap", update, local_pts), channel_id, update)

\* mutant of handle_qts_update: an update at or below the local qts applies
handle_qts_update_geq(d, update) ==
    LET d0 == get_update_state(d, COMMON)
        qts == update.qts
        local_qts == d0.info[COMMON].qts
    IN  IF local_qts = 0 \/ local_qts + 1 >= qts
        THEN process_update(
                 us_process_update(
                     [Traced(d0, "apply", update, local_qts) EXCEPT
                         !.info[COMMON].qts = qts],
                     COMMON, update),
                 update)
        ELSE us_add(Traced(d0, "gap", update, local_qts), COMMON, update)

\* Updates._handle_qts_update
handle_qts_update(d, update) ==
    LET d0 == get_update_state(d, COMMON)
        qts == update.qts
        local_qts == d0.info[COMMON].qts
    IN  IF local_qts = 0 \/ local_qts + 1 = qts
        THEN process_update(
                 us_process_update(
                     [Traced(d0, "apply", update, local_qts) EXCEPT
                         !.info[COMMON].qts = qts],
                     COMMON, update),
                 update)
        ELSE IF local_qts + 1 > qts
        THEN us_process_update(Traced(d0, "discard", update, local_qts),
                               COMMON, update)
        ELSE us_add(Traced(d0, "gap", update, local_qts), COMMON, update)

\* Updates._handle_single_update
handle_single_update(d, update) ==
    IF update.pts # 0 THEN handle_pts_update(d, update)
    ELSE IF update.qts # 0 THEN handle_qts_update(d, update)
    ELSE process_update(Traced(d, "plain", update, 0), update)

\* for single_update in update.updates: _handle_single_update(single_update)
RECURSIVE handle_each(_, _)
handle_each(d, updates) ==
    IF updates = <<>> THEN d
    ELSE handle_each(handle_single_update(d, Head(updates)), Tail(updates))

\* Updates._fetch_difference up to its first await of GetDifference
fetch_difference(d, origin) ==
    LET state_info == d.info[COMMON]
    IN  IF state_info.pts <= 0
        THEN save_state(d, COMMON, state_info)
        ELSE [us_destroy(d, COMMON) EXCEPT
                 !.fetches = Append(@, FetchTask(COMMON, state_info,
                                                 "GetDifference", origin))]

\* the mutant of handle_seq_updates: seq and date are set for every batch
handle_seq_updates_always(d, update) ==
    LET d0 == get_update_state(d, COMMON)
        seq == update.seq
        local_seq == d0.info[COMMON].seq
        seq_start == update.seq_start
    IN  IF seq_start = 0 \/ local_seq + 1 = seq_start
        THEN [handle_each(d0, update.updates) EXCEPT
                 !.info[COMMON].seq = seq, !.info[COMMON].date = update.date]
        ELSE IF local_seq + 1 > seq_start
        THEN d0
        ELSE fetch_difference(d0, "direct")

\* mutant of handle_seq_updates: a batch ahead of the local seq is applied
\* before the fetch, a batch behind it is applied too
handle_seq_updates_eager(d, update) ==
    LET d0 == get_update_state(d, COMMON)
        seq == update.seq
        local_seq == d0.info[COMMON].seq
        seq_start == update.seq_start
    IN  IF seq_start = 0 \/ local_seq + 1 = seq_start
        THEN LET d1 == handle_each(d0, update.updates)
             IN  IF seq # 0
                 THEN [d1 EXCEPT !.info[COMMON].seq = seq,
                                 !.info[COMMON].date = update.date]
                 ELSE d1
        ELSE IF local_seq + 1 > seq_start
        THEN handle_each(d0, update.updates)
        ELSE fetch_difference(handle_each(d0, update.updates), "direct")

\* Updates._handle_seq_updates; a batch is [seq_start, seq, date, updates],
\* with seq_start = seq for the type Updates, which has no seq_start
handle_seq_updates(d, update) ==
    LET d0 == get_update_state(d, COMMON)
        seq == update.seq
        local_seq == d0.info[COMMON].seq
        seq_start == update.seq_start
    IN  IF seq_start = 0 \/ local_seq + 1 = seq_start
        THEN LET d1 == handle_each(d0, update.updates)
             IN  IF seq # 0
                 THEN [d1 EXCEPT !.info[COMMON].seq = seq,
                                 !.info[COMMON].date = update.date]
                 ELSE d1
        ELSE IF local_seq + 1 > seq_start
        THEN d0
        ELSE fetch_difference(d0, "direct")

\* Updates._updates_dispatcher for Updates and UpdatesCombined.  The batches
\* of the model carry no users and no chats, which leaves _prepare_updates
\* nothing to do.
updates_dispatcher(d, update) == handle_seq_updates(d, update)

\* the buffered updates re-enter the single-update path in the order of
\* their keys
RECURSIVE replay(_, _)
replay(d, updates) ==
    IF updates = {} THEN d
    ELSE LET update == CHOOSE x \in updates :
                          \A y \in updates : update_order_key(x) <= update_order_key(y)
             d1 == handle_single_update(d, update)
         IN  IF Len(d1.fetches) > Len(d.fetches)
             THEN [d1 EXCEPT !.fetches[Len(d1.fetches)].rest = updates \ {update}]
             ELSE replay(d1, updates \ {update})

\* the fetch task of an UpdateState after its fetch callback returned: the
\* buffer is drained and replayed
us_replay(d, sid) == replay([d EXCEPT !.pending[sid] = {}], d.pending[sid])

RemoveAt(s, i) == SubSeq(s, 1, i - 1) \o SubSeq(s, i + 1, Len(s))

\* _handle_updates_too_long after its fetch: the four values of the answer
\* of GetState are assigned to the common state
too_long_commit(d, state) == [d EXCEPT !.info[COMMON] = state]

\* Updates._handle_updates_too_long from the answer of GetState to its
\* await of the fetch, or to its end
handle_updates_too_long(d, state, drop_update) ==
    LET d1 == get_update_state(d, COMMON)
    IN  IF drop_update
        THEN too_long_commit(d1, state)
        ELSE LET d2 == fetch_difference(d1, "too_long")
             IN  IF Len(d2.fetches) > Len(d1.fetches)
                 THEN [d2 EXCEPT !.fetches[Len(d2.fetches)].too_long = state]
                 ELSE too_long_commit(d2, state)

\* mutant: a fetch that ends with an exception saves nothing
fetch_done_lost(d, i, locals, ok) ==
    LET f == d.fetches[i]
        sid == f.sid
        state_info == IF sid = COMMON
                      THEN [pts |-> locals.pts, qts |-> locals.qts,
                            seq |-> locals.seq, date |-> locals.date]
                      ELSE [d.info[sid] EXCEPT !.pts = locals.pts]
        d1 == [d EXCEPT !.info[sid] = IF sid \in d.live THEN state_info ELSE @,
                        !.fetches = RemoveAt(@, i)]
        d2 == IF ok THEN save_state(d1, sid, state_info) ELSE d1
        d3 == IF ok /\ f.origin = "timer" THEN us_replay(d2, sid)
              ELSE IF ok /\ f.origin = "too_long"
              THEN too_long_commit(d2, f.too_long)
              ELSE d2
    IN  IF ok /\ f.then # <<>>
        THEN replay([d3 EXCEPT !.delivered = Append(@, f.then[1])], f.rest)
        ELSE d3

\* the finally clause of _fetch_difference / _fetch_channel_difference with
\* the locals as they are, and the end of the task; ok tells whether the
\* coroutine returned rather than raised
fetch_done(d, i, locals, ok) ==
    LET f == d.fetches[i]
        sid == f.sid
        state_info == IF sid = COMMON
                      THEN [pts |-> locals.pts, qts |-> locals.qts,
                            seq |-> locals.seq, date |-> locals.date]
                      ELSE [d.info[sid] EXCEPT !.pts = locals.pts]
        d1 == [d EXCEPT !.info[sid] = IF sid \in d.live THEN state_info ELSE @,
                        !.fetches = RemoveAt(@, i)]
        d2 == save_state(d1, sid, state_info)
        d3 == IF ok /\ f.origin = "timer" THEN us_replay(d2, sid)
              ELSE IF ok /\ f.origin = "too_long"
              THEN too_long_commit(d2, f.too_long)
              ELSE d2
    IN  IF ok /\ f.then # <<>>
        THEN replay([d3 EXCEPT !.delivered = Append(@, f.then[1])], f.rest)
        ELSE d3

\* new_messages and new_encrypted_messages of a difference, as updates
RECURSIVE WrapMessages(_, _)
WrapMessages(messages, pts) ==
    IF messages = <<>> THEN <<>>
    ELSE <<UpdateNewMessage(Head(messages), pts, 0)>>
            \o WrapMessages(Tail(messages), pts)

RECURSIVE WrapEncrypted(_, _)
WrapEncrypted(messages, qts) ==
    IF messages = <<>> THEN <<>>
    ELSE <<UpdateNewEncryptedMessage(Head(messages), qts)>>
            \o WrapEncrypted(Tail(messages), qts)

RECURSIVE WrapChannelMessages(_, _, _)
WrapChannelMessages(messages, pts, channel_id) ==
    IF messages = <<>> THEN <<>>
    ELSE <<UpdateNewChannelMessage(Head(messages), pts, 0, channel_id)>>
            \o WrapChannelMessages(Tail(messages), pts, channel_id)

\* Updates._fetch_difference from the answer of its RPC to its next await
\* or its end.  difference is [type, state, other_updates, new_messages,
\* new_encrypted_messages]; an error type stands for the RPC raising.
fetch_difference_reply(d, i, difference) ==
    LET f == d.fetches[i]
    IN  IF f.await = "GetState"
        THEN IF difference.type = "State"
             THEN fetch_done(d, i, difference.state, TRUE)
             ELSE fetch_done(d, i, f, FALSE)
        ELSE IF difference.type = "DifferenceEmpty"
        THEN fetch_done(d, i, [f EXCEPT !.seq = difference.state.seq,
                                        !.date = difference.state.date], TRUE)
        ELSE IF difference.type = "DifferenceTooLong"
        THEN fetch_done(d, i, [f EXCEPT !.pts = difference.state.pts], TRUE)
        ELSE IF difference.type \in {"Difference", "DifferenceSlice"}
        THEN LET state == difference.state
                 updates == difference.other_updates
                     \o WrapMessages(difference.new_messages, state.pts)
                     \o WrapEncrypted(difference.new_encrypted_messages, state.qts)
                 update == [seq_start |-> 0, seq |-> state.seq,
                            date |-> state.date, updates |-> updates]
                 d1 == [d EXCEPT !.info[COMMON] = state]
                 d2 == updates_dispatcher(d1, update)
             IN  IF difference.type = "DifferenceSlice"
                 THEN [d2 EXCEPT !.fetches[i] =
                          [f EXCEPT !.pts = state.pts, !.qts = state.qts,
                                    !.seq = state.seq, !.date = state.date,
                                    !.await = "GetDifference"]]
                 ELSE fetch_done(d2, i, state, TRUE)
        ELSE IF difference.type \in {"PersistentTimestampEmptyError",
                                     "PersistentTimestampInvalidError"}
        THEN [d EXCEPT !.fetches[i].await = "GetState"]
        ELSE fetch_done(d, i, f, FALSE)

\* Updates._delete_update_state
delete_update_state(d, sid) ==
    [save_state(d, sid, d.info[sid]) EXCEPT
        !.live = @ \ {sid}, !.info[sid] = NoInfo,
        !.pending[sid] = {}, !.timer[sid] = FALSE]

\* mutant of fetch_channel_difference_reply: ChannelInvalidError and
\* ChannelPrivateError are raised like any other error
fetch_channel_difference_reply_raise(d, i, difference) ==
    LET f == d.fetches[i]
        sid == f.sid
    IN  IF difference.type \in {"ChannelDifferenceEmpty", "ChannelDifferenceTooLong"}
        THEN fetch_done(d, i, [f EXCEPT !.pts = difference.pts], TRUE)
        ELSE IF difference.type = "ChannelDifference"
        THEN LET updates == difference.other_updates
                     \o WrapChannelMessages(difference.new_messages,
                                            difference.pts, sid)
                 update == [seq_start |-> 0, seq |-> 0,
                            date |-> DEFAULT_STATE_DATE, updates |-> updates]
                 d1 == [d EXCEPT !.info[sid].pts =
                           IF sid \in d.live THEN difference.pts ELSE @]
                 d2 == updates_dispatcher(d1, update)
                 locals == [f EXCEPT !.pts = difference.pts]
             IN  IF difference.final
                 THEN fetch_done(d2, i, locals, TRUE)
                 ELSE [d2 EXCEPT !.fetches[i] = locals]
        ELSE fetch_done(d, i, f, FALSE)

\* Updates._fetch_channel_difference from the answer of its RPC on.
\* difference is [type, pts, final, other_updates, new_messages].
fetch_channel_difference_reply(d, i, difference) ==
    LET f == d.fetches[i]
        sid == f.sid
    IN  IF difference.type \in {"ChannelDifferenceEmpty", "ChannelDifferenceTooLong"}
        THEN fetch_done(d, i, [f EXCEPT !.pts = difference.pts], TRUE)
        ELSE IF difference.type = "ChannelDifference"
        THEN LET updates == difference.other_updates
                     \o WrapChannelMessages(difference.new_messages,
                                            difference.pts, sid)
                 update == [seq_start |-> 0, seq |-> 0,
                            date |-> DEFAULT_STATE_DATE, updates |-> updates]
                 d1 == [d EXCEPT !.info[sid].pts =
                           IF sid \in d.live THEN difference.pts ELSE @]
                 d2 == updates_dispatcher(d1, update)
                 locals == [f EXCEPT !.pts = difference.pts]
             IN  IF difference.final
                 THEN fetch_done(d2, i, locals, TRUE)
                 ELSE [d2 EXCEPT !.fetches[i] = locals]
        ELSE IF difference.type \in {"ChannelInvalidError", "ChannelPrivateError"}
        THEN fetch_done(Traced(delete_update_state(d, sid), "gone", difference,
                               f.pts),
                        i, f, TRUE)
        ELSE fetch_done(d, i, f, FALSE)

\* the user ids of the model: the logged-in user and a peer
SelfId == 7
PeerId == 8

\* UpdateShortMessage, UpdateShortChatMessage and UpdateShortSentMessage;
\* user_id is the peer of an UpdateShortMessage, from_id the sender of an
\* UpdateShortChatMessage
ShortUpdates ==
    [type : {"UpdateShortMessage", "UpdateShortChatMessage",
             "UpdateShortSentMessage"},
     id : {MaxPts}, pts : 1..MaxPts, pts_count : {1}, out : BOOLEAN,
     user_id : {PeerId}, from_id : {PeerId}]

\* what types.UpdateNewMessage(message=types.Message(id=..., pts=...,
\* pts_count=...)) of the UpdateShortSentMessage branch does: the pts and
\* pts_count go to Message, UpdateNewMessage gets none.  The generated
\* constructors are not among the sources; either the call raises
\* TypeError or it yields an update without pts.
SentBuilds == {"TypeError", "no pts"}

\* the UpdateNewMessage a short update is turned into
TransformedMessage(update, from_id, pts, pts_count) ==
    [type |-> "UpdateNewMessage", id |-> update.id, pts |-> pts,
     pts_count |-> pts_count, qts |-> 0, channel_id |-> 0,
     from_id |-> from_id]

\* Updates._handle_short_update.  me is session.me.id (0: session.me is
\* None), got the id of the user get_me() returns (0: it returns None),
\* build the behaviour of the constructor call of the third branch.  An
\* exception ends the handling: _updates_dispatcher logs it.
handle_short_update(d, update, me, got, build) ==
    IF update.type = "UpdateShortMessage"
    THEN IF update.out /\ me = 0 /\ got = 0
         THEN d
         ELSE handle_single_update(d,
                  TransformedMessage(update,
                      IF update.out THEN (IF me # 0 THEN me ELSE got)
                      ELSE update.user_id,
                      update.pts, update.pts_count))
    ELSE IF update.type = "UpdateShortChatMessage"
    THEN handle_single_update(d,
             TransformedMessage(update, update.from_id,
                                update.pts, update.pts_count))
    ELSE IF build = "TypeError"
    THEN d
    ELSE handle_single_update(d, TransformedMessage(update, 0, 0, 0))

(***************************************************************************)
(* SpecUpdates: the server sends single updates and batches in any order,  *)
(* the scheduled fetches start, and the RPCs of the fetches are answered   *)
(* in any order with any answer.                                           *)
(***************************************************************************)
Dates == {DEFAULT_STATE_DATE, DEFAULT_STATE_DATE + 1}

\* the updates inside batches and differences
BatchUpdates ==
    {UpdateNewMessage(p, p, 1) : p \in 1..(MaxPts - 1)} \cup {UpdateUserStatus}

BatchLists ==
    {<<>>} \cup {<<u>> : u \in BatchUpdates}
           \cup {<<u, v>> : u \in BatchUpdates, v \in BatchUpdates}

\* Updates (seq_start = seq) and UpdatesCombined (seq_start <= seq)
Batches ==
    {update \in [seq_start : 0..MaxSeq, seq : 0..MaxSeq, date : Dates,
                 updates : BatchLists] : update.seq_start <= update.seq}

ServerStates ==
    [pts : 1..MaxPts, qts : 0..1, seq : {0, MaxSeq},
     date : {DEFAULT_STATE_DATE + 1}]

Differences ==
    [type : {"Difference", "DifferenceSlice"},
     state : ServerStates,
     other_updates : {<<>>} \cup {<<u>> : u \in BatchUpdates},
     new_messages : {<<>>} \cup {<<m>> : m \in 1..(MaxPts - 1)},
     new_encrypted_messages : {<<>>, <<MaxPts>>}]
    \cup
    [type : {"DifferenceEmpty", "DifferenceTooLong"},
     state : ServerStates,
     other_updates : {<<>>}, new_messages : {<<>>},
     new_encrypted_messages : {<<>>}]
    \cup
    [type : {"PersistentTimestampInvalidError", "RpcError"},
     state : {NoInfo},
     other_updates : {<<>>}, new_messages : {<<>>},
     new_encrypted_messages : {<<>>}]

States ==
    [type : {"State"}, state : ServerStates,
     other_updates : {<<>>}, new_messages : {<<>>},
     new_encrypted_messages : {<<>>}]
    \cup
    [type : {"RpcError"}, state : {NoInfo},
     other_updates : {<<>>}, new_messages : {<<>>},
     new_encrypted_messages : {<<>>}]

ChannelDifferences(sid) ==
    [type : {"ChannelDifference"}, pts : 1..MaxPts, final : BOOLEAN,
     other_updates : {<<>>} \cup {<<UpdateNewChannelMessage(p, p, 1, sid)>> :
                                     p \in 1..MaxPts},
     new_messages : {<<>>} \cup {<<m>> : m \in 1..MaxPts}]
    \cup
    [type : {"ChannelDifferenceEmpty", "ChannelDifferenceTooLong"},
     pts : 1..MaxPts, final : {TRUE},
     other_updates : {<<>>}, new_messages : {<<>>}]
    \cup
    [type : {"ChannelInvalidError", "ChannelPrivateError", "RpcError"},
     pts : {0}, final : {TRUE},
     other_updates : {<<>>}, new_messages : {<<>>}]

\* the step leaves d behind, within the bounds of the model
Becomes(d) ==
    /\ steps < MaxSteps
    /\ steps' = steps + 1
    /\ Len(d.delivered) <= MaxDelivered
    /\ Len(d.fetches) <= MaxFetch
    /\ live' = d.live
    /\ info' = d.info
    /\ store' = d.store
    /\ pending' = d.pending
    /\ timer' = d.timer
    /\ fetches' = d.fetches
    /\ delivered' = d.delivered
    /\ trace' = d.trace
    /\ UNCHANGED <<stateVars, histVars, queueVars, moreVars>>

\* an UpdateShort arrives
RecvUpdateShort ==
    \E update \in AllUpdates : Becomes(handle_single_update(Cur, update))

\* an UpdateShortMessage, UpdateShortChatMessage or UpdateShortSentMessage
\* arrives
RecvShortUpdate ==
    \E update \in ShortUpdates : \E me \in {0, SelfId} : \E got \in {0, SelfId} :
        \E build \in SentBuilds :
            Becomes(handle_short_update(Cur, update, me, got, build))

\* an Updates or UpdatesCombined arrives
RecvUpdates ==
    \E update \in Batches : Becomes(updates_dispatcher(Cur, update))

\* the debounce delay of an UpdateState is over: its task calls the fetch
\* callback
TimerFire ==
    \E sid \in StateIds :
        /\ timer[sid]
        /\ LET d == [Cur EXCEPT !.timer[sid] = FALSE]
           IN  IF sid = COMMON
               THEN Becomes(fetch_difference(d, "timer"))
               ELSE Becomes(fetch_channel_difference(d, sid, "timer"))

\* the RPC of a fetch of the common state is answered
DifferenceReply ==
    \E i \in 1..Len(fetches) :
        /\ fetches[i].sid = COMMON
        /\ \E difference \in (IF fetches[i].await = "GetState"
                              THEN States ELSE Differences) :
               Becomes(fetch_difference_reply(Cur, i, difference))

\* the RPC of a fetch of a channel state is answered
ChannelDifferenceReply ==
    \E i \in 1..Len(fetches) :
        /\ fetches[i].sid # COMMON
        /\ \E difference \in ChannelDifferences(fetches[i].sid) :
               Becomes(fetch_channel_difference_reply(Cur, i, difference))

\* an UpdateShort with an update of a channel arrives
RecvChannelUpdate ==
    \E update \in ChannelUpdates : Becomes(handle_single_update(Cur, update))

NextUpdates ==
    \/ RecvUpdateShort
    \/ RecvShortUpdate
    \/ RecvUpdates
    \/ TimerFire
    \/ DifferenceReply
    \/ ChannelDifferenceReply

SpecUpdates == Init /\ [][NextUpdates]_vars

\* the fetches in flight when an UpdatesTooLong is taken up
MaxTooLong == 1

\* an UpdatesTooLong arrives and GetState is answered
RecvUpdatesTooLong ==
    \E answer \in States : \E drop_update \in BOOLEAN :
        /\ Len(fetches) < MaxTooLong
        /\ answer.type = "State"
        /\ Becomes(handle_updates_too_long(Cur, answer.state, drop_update))

\* the dispatcher restricted to UpdatesTooLong and the fetches it starts
NextTooLong ==
    \/ RecvUpdatesTooLong
    \/ DifferenceReply

SpecTooLong == Init /\ [][NextTooLong]_vars

(***************************************************************************)
(* Telegram.__call__ (snakegram/core/telegram.py) and Common.get_me        *)
(* (core/methods/common.py).                                               *)
(*                                                                         *)
(* get_me calls __call__ again, so the activations of __call__ form a      *)
(* stack; each is [query, pc, dc, me, migrated, resent] with pc the await  *)
(* it is suspended on ("invoke", "probe": inside get_me, "migrate",        *)
(* "resend"), dc the dc_id of the SeeOtherError it caught, me what get_me  *)
(* gave it.  What ends an activation is [error, dc]: error "" is a result. *)
(* The class Connection (network/connection.py) is not among the sources:  *)
(* its invoke, migrate and resend are modelled from the specification, as  *)
(* calls that end with a result or an exception; a successful migrate      *)
(* switches the dc and runs a fresh handshake.                             *)
(***************************************************************************)
\* data centers
NumDC == 3
\* nested activations of __call__
MaxDepth == 3

Outcome(error, dc) == [error |-> error, dc |-> dc]

SeeOtherErrors == {Outcome("SeeOtherError", dc) : dc \in 1..NumDC}

\* how connection.invoke and connection.resend can end
RpcOutcomes ==
    {Outcome("", 0), Outcome("UnauthorizedError", 0), Outcome("RpcError", 0)}
        \cup SeeOtherErrors

NewCall(query) ==
    [query |-> query, pc |-> "invoke", dc |-> 0, me |-> "unknown",
     migrated |-> 0, resent |-> 0]

SetTop(stk, f) == [stk EXCEPT ![Len(stk)] = f]

\* mutant of after_probe: migrate whatever get_me gave
after_probe_always(f, me) ==
    [f EXCEPT !.me = me, !.pc = "migrate", !.migrated = @ + 1]

\* telegram.py:118-133: with a user the SeeOtherError is raised again (pc
\* "raise"), with None connection.migrate(exc.dc_id) is called
after_probe(f, me) ==
    IF me = "user"
    THEN [f EXCEPT !.me = me, !.pc = "raise"]
    ELSE [f EXCEPT !.me = me, !.pc = "migrate", !.migrated = @ + 1]

\* mutant of after_migrate: the request is not sent again
after_migrate_silent(f) == [f EXCEPT !.pc = "resend"]

\* telegram.py:134: connection.resend(exc.request) is called
after_migrate(f) == [f EXCEPT !.pc = "resend", !.resent = @ + 1]

\* the innermost activation of stk ends with out.  Below it, if anything,
\* is an activation inside get_me: get_me returns the user of a result,
\* returns None on UnauthorizedError (common.py:34-35) and lets every other
\* exception pass.  The result is the stack left, _authorized, what the
\* caller of the outermost activation gets and the migrate calls made.
RECURSIVE Unwind(_, _, _)
Unwind(stk, out, auth) ==
    LET top == stk[Len(stk)]
        rest == SubSeq(stk, 1, Len(stk) - 1)
    IN  IF rest = <<>>
        THEN [stack |-> <<>>, authorized |-> auth,
              observed |-> <<[error |-> out.error, dc |-> out.dc, call |-> top]>>,
              migrations |-> <<>>]
        ELSE LET parent == rest[Len(rest)]
             IN  IF out.error = ""
                 THEN LET f == after_probe(parent, "user")
                      IN  IF f.pc = "raise"
                          THEN Unwind(SetTop(rest, f),
                                      Outcome("SeeOtherError", parent.dc), TRUE)
                          ELSE [stack |-> SetTop(rest, f), authorized |-> TRUE,
                                observed |-> <<>>, migrations |-> <<f.dc>>]
                 ELSE IF out.error = "UnauthorizedError"
                 THEN LET f == after_probe(parent, "none")
                      IN  IF f.pc = "raise"
                          THEN Unwind(SetTop(rest, f),
                                      Outcome("SeeOtherError", parent.dc), FALSE)
                          ELSE [stack |-> SetTop(rest, f), authorized |-> FALSE,
                                observed |-> <<>>, migrations |-> <<f.dc>>]
                 ELSE Unwind(rest, out, auth)

\* the step leaves the stack, _authorized and the caller as u says
Unwound(u) ==
    /\ stack' = u.stack
    /\ authorized' = u.authorized
    /\ observed' = observed \o u.observed
    /\ migrations' = migrations \o u.migrations

OutsideCall == <<stateVars, histVars, queueVars, updVars, hdlVars, cacheVars,
                 saltVars, entVars>>

\* a caller awaits client(query)
CallStart ==
    /\ stack = <<>>
    /\ observed = <<>>
    /\ stack' = <<NewCall("Query")>>
    /\ UNCHANGED <<dc_id, auth_key, authorized, migrations, resends, observed>>
    /\ UNCHANGED OutsideCall

\* connection.invoke of the innermost activation ends
InvokeReply ==
    /\ stack # <<>>
    /\ stack[Len(stack)].pc = "invoke"
    /\ \E out \in RpcOutcomes :
          IF out.error = "SeeOtherError"
          THEN /\ Len(stack) < MaxDepth
               /\ stack' = Append(SetTop(stack, [stack[Len(stack)] EXCEPT
                                                    !.pc = "probe", !.dc = out.dc]),
                                  NewCall("GetUsers"))
               /\ UNCHANGED <<authorized, observed, migrations>>
          ELSE Unwound(Unwind(stack, out, authorized))
    /\ UNCHANGED <<dc_id, auth_key, resends>>
    /\ UNCHANGED OutsideCall

\* connection.migrate of the innermost activation ends: the session is on
\* the new dc with a fresh auth key and the request is resent, or it raised
MigrateReply ==
    /\ stack # <<>>
    /\ stack[Len(stack)].pc = "migrate"
    /\ \/ /\ dc_id' = stack[Len(stack)].dc
          /\ auth_key' = auth_key + 1
          /\ LET f == after_migrate(stack[Len(stack)])
             IN  /\ stack' = SetTop(stack, f)
                 /\ resends' = IF f.resent > stack[Len(stack)].resent
                               THEN Append(resends, f.query) ELSE resends
          /\ UNCHANGED <<authorized, observed, migrations>>
       \/ /\ Unwound(Unwind(stack, Outcome("ConnectionError", 0), authorized))
          /\ UNCHANGED <<dc_id, auth_key, resends>>
    /\ UNCHANGED OutsideCall

\* connection.resend of the innermost activation ends; __call__ returns its
\* result or lets its exception pass
ResendReply ==
    /\ stack # <<>>
    /\ stack[Len(stack)].pc = "resend"
    /\ \E out \in RpcOutcomes : Unwound(Unwind(stack, out, authorized))
    /\ UNCHANGED <<dc_id, auth_key, resends>>
    /\ UNCHANGED OutsideCall

NextCall ==
    \/ CallStart
    \/ InvokeReply
    \/ MigrateReply
    \/ ResendReply

SpecCall == Init /\ [][NextCall]_vars

(***************************************************************************)
(* The event handlers (core/handlers.py, core/internal/event_handler.py)   *)
(* and the completion of a Request (network/utils.py).  A handler is       *)
(* modelled by what its execute() does when the event reaches it.          *)
(***************************************************************************)
MaxHandlers == 3
MaxRecursion == 2

EventTypes == {"update", "error", "result", "request"}

\* what EventHandler.execute does with an event:
\*   skip              the handler is stopped, or its filter does not match
\*                     or raises: the callback is not called
\*   return            the callback returns
\*   StopPropagation   the callback raises errors.StopPropagation
\*   BaseError         the callback raises a BaseError that is no RpcError
\*   RpcError          the callback raises an RpcError
\*   Exception         the callback raises any other Exception
\*   set_result        the callback awaits request.set_result(x)
\*   set_exception     the callback awaits request.set_exception(y), y no
\*                     RpcError
\*   set_rpc_error     the callback awaits request.set_exception(y), y an
\*                     RpcError
UpdateBehaviours == {"skip", "return", "StopPropagation", "BaseError",
                     "Exception"}
Behaviours == UpdateBehaviours \cup {"RpcError", "set_result", "set_exception",
                                     "set_rpc_error"}

\* the values a request future can hold
Value(name, rpc) == [name |-> name, rpc |-> rpc]
NoValue     == Value("", FALSE)
ServerError == Value("RpcError", TRUE)          \* the error the server sent
ServerResult == Value("result", FALSE)          \* the result the server sent
HandlerResult == Value("x", FALSE)              \* x of set_result(x)
HandlerError == Value("y", FALSE)               \* a BaseError, no RpcError
HandlerRpcError == Value("y", TRUE)             \* an RpcError of a handler

Future(state, value) == [state |-> state, value |-> value]
Pending == Future("pending", NoValue)

\* Request.done()
done(st) == st.fut.state # "pending"

\* what a call gave: the state after it and the exception it let pass
Raised(kind, error) == [kind |-> kind, error |-> error]
NoExc == Raised("none", NoValue)
Gave(st, exc) == [st |-> st, exc |-> exc]

\* the state the handler code runs on: the future of the request, the
\* callbacks executed so far, the number of dispatch loops started,
\* whether the logger is enabled for INFO, and the values handed to
\* _future.set_result and _future.set_exception so far
NewRun(log_info) == [fut |-> Pending, ran |-> <<>>, calls |-> 0,
                     log_info |-> log_info, completed |-> <<>>]

\* _future.set_result(value), _future.set_exception(value)
future_set(st, state, value) ==
    [st EXCEPT !.fut = Future(state, value),
               !.completed = Append(@, Future(state, value))]

RECURSIVE callback_loop(_, _, _, _, _)
RECURSIVE request_set_exception(_, _, _)
RECURSIVE request_set_result(_, _, _)

\* get_handlers(event_type): the local handlers, then the global ones.  The
\* model keeps a global list for the update handlers.
get_handlers(kind) ==
    IF kind = "update" THEN handlers["update"] \o handlers["global_update"]
    ELSE handlers[kind]

\* the list that holds handler i of get_handlers(kind), and its place there
handler_list(kind, i) ==
    IF kind = "update" /\ i > Len(handlers["update"]) THEN "global_update"
    ELSE kind
handler_index(kind, i) ==
    IF kind = "update" /\ i > Len(handlers["update"])
    THEN i - Len(handlers["update"]) ELSE i

\* EventHandler.execute for handler i of get_handlers(kind), in loop `call`
execute(st, kind, call, i, depth) ==
    LET b == get_handlers(kind)[i]
        st1 == [st EXCEPT !.ran = Append(@, [loop |-> handler_list(kind, i),
                                              call |-> call,
                                              handler |-> handler_index(kind, i)])]
    IN  CASE b = "skip"            -> Gave(st, NoExc)
          [] b = "return"          -> Gave(st1, NoExc)
          [] b = "StopPropagation" -> Gave(st1, Raised("StopPropagation", NoValue))
          [] b = "BaseError"       -> Gave(st1, Raised("BaseError", HandlerError))
          [] b = "RpcError"        -> Gave(st1, Raised("BaseError", HandlerRpcError))
          [] b = "Exception"       -> Gave(st1, Raised("Exception", NoValue))
          [] b = "set_result"      ->
                Gave(request_set_result(st1, HandlerResult, depth), NoExc)
          [] b = "set_exception"   ->
                Gave(request_set_exception(st1, HandlerError, depth), NoExc)
          [] b = "set_rpc_error"   ->
                Gave(request_set_exception(st1, HandlerRpcError, depth), NoExc)

\* the part of the error, result and request loops after the try statement:
\* a completed request ends the loop.  The request loop formats the name
\* exc in its log line, which is unbound after the except clause.
after_handler(st, kind, call, i, depth) ==
    IF kind # "update" /\ done(st)
    THEN IF kind = "request" /\ st.log_info /\ st.fut.state = "exception"
         THEN Gave(st, Raised("Exception", NoValue))
         ELSE Gave(st, NoExc)
    ELSE callback_loop(st, kind, call, i + 1, depth)

\* mutant: StopPropagation is handled as any other exception of a handler
callback_loop_through(st, kind, call, i, depth) ==
    IF i > Len(get_handlers(kind))
    THEN Gave(st, NoExc)
    ELSE LET r == execute(st, kind, call, i, depth)
         IN  IF r.exc.kind = "BaseError" /\ kind # "update"
             THEN after_handler(request_set_exception(r.st, r.exc.error, depth),
                                kind, call, i, depth)
             ELSE after_handler(r.st, kind, call, i, depth)

\* mutant: an exception of an update handler ends the dispatch of the update
callback_loop_abort(st, kind, call, i, depth) ==
    IF i > Len(get_handlers(kind))
    THEN Gave(st, NoExc)
    ELSE LET r == execute(st, kind, call, i, depth)
         IN  CASE r.exc.kind = "StopPropagation" -> Gave(r.st, NoExc)
               [] r.exc.kind = "BaseError" /\ kind # "update" ->
                     after_handler(request_set_exception(r.st, r.exc.error, depth),
                                   kind, call, i, depth)
               [] r.exc.kind \in {"BaseError", "Exception"} /\ kind = "update" ->
                     Gave(r.st, NoExc)
               [] OTHER -> after_handler(r.st, kind, call, i, depth)

\* _update_callback, _error_callback, _result_callback and
\* _request_callback from handler i on
callback_loop(st, kind, call, i, depth) ==
    IF i > Len(get_handlers(kind))
    THEN Gave(st, NoExc)
    ELSE LET r == execute(st, kind, call, i, depth)
         IN  CASE r.exc.kind = "StopPropagation" -> Gave(r.st, NoExc)
               [] r.exc.kind = "BaseError" /\ kind # "update" ->
                     after_handler(request_set_exception(r.st, r.exc.error, depth),
                                   kind, call, i, depth)
               [] OTHER -> after_handler(r.st, kind, call, i, depth)

\* one of the four dispatch functions, called for one event
callback(st, kind, depth) ==
    callback_loop([st EXCEPT !.calls = @ + 1], kind, st.calls + 1, 1, depth)

\* mutant: the future is completed without asking the error handlers
request_set_exception_direct(st, exception, depth) ==
    IF done(st) THEN st
    ELSE future_set(st, "exception", exception)

\* Request.set_exception.  At the recursion limit of the interpreter the
\* call of the error callback raises RecursionError, an Exception that is
\* passed over.
request_set_exception(st, exception, depth) ==
    LET r == IF exception.rpc /\ depth < MaxRecursion
             THEN callback(st, "error", depth + 1)
             ELSE Gave(st, NoExc)
        err == IF r.exc.kind = "BaseError" THEN r.exc.error ELSE exception
    IN  IF done(r.st) THEN r.st
        ELSE future_set(r.st, "exception", err)

\* mutant: the result is stored without asking done()
request_set_result_again(st, result, depth) ==
    LET r == IF depth < MaxRecursion
             THEN callback(st, "result", depth + 1)
             ELSE Gave(st, NoExc)
    IN  IF r.exc.kind = "BaseError"
        THEN request_set_exception(r.st, r.exc.error, depth)
        ELSE future_set(r.st, "result", result)

\* Request.set_result
request_set_result(st, result, depth) ==
    LET r == IF depth < MaxRecursion
             THEN callback(st, "result", depth + 1)
             ELSE Gave(st, NoExc)
    IN  IF r.exc.kind = "BaseError"
        THEN request_set_exception(r.st, r.exc.error, depth)
        ELSE IF done(r.st) THEN r.st
             ELSE future_set(r.st, "result", result)

NoLog == [event |-> "none", fut |-> Pending, ran |-> <<>>, calls |-> 0,
          log_info |-> FALSE, escaped |-> "none", queued |-> FALSE]
Logged(event, r, queued) ==
    [event |-> event, fut |-> r.st.fut, ran |-> r.st.ran, calls |-> r.st.calls,
     log_info |-> r.st.log_info, escaped |-> r.exc.kind, queued |-> queued]

RegisteredHandlers ==
    Len(handlers["update"]) + Len(handlers["global_update"])
        + Len(handlers["error"]) + Len(handlers["result"])
        + Len(handlers["request"])

OutsideHandlers == <<stateVars, histVars, queueVars, updVars, callVars,
                     cacheVars, saltVars, entVars>>

\* on_update, on_error, on_result, on_request: _register_handler appends
RegisterHandler ==
    /\ RegisteredHandlers < MaxHandlers
    /\ \E kind \in EventTypes \cup {"global_update"} :
       \E b \in (IF kind \in {"update", "global_update"}
                 THEN UpdateBehaviours ELSE Behaviours) :
          handlers' = [handlers EXCEPT ![kind] = Append(@, b)]
    /\ hlog' = NoLog
    /\ UNCHANGED OutsideHandlers

\* an update reaches _update_callback
UpdateEvent ==
    /\ \E log_info \in BOOLEAN :
          hlog' = Logged("update", callback(NewRun(log_info), "update", 0), FALSE)
    /\ UNCHANGED handlers
    /\ UNCHANGED OutsideHandlers

\* the server answers a request with an RpcError: Request.set_exception
RpcErrorEvent ==
    /\ \E log_info \in BOOLEAN :
          hlog' = Logged("error",
                         Gave(request_set_exception(NewRun(log_info), ServerError, 0),
                              NoExc), FALSE)
    /\ UNCHANGED handlers
    /\ UNCHANGED OutsideHandlers

\* the server answers a request with a result: Request.set_result
RpcResultEvent ==
    /\ \E log_info \in BOOLEAN :
          hlog' = Logged("result",
                         Gave(request_set_result(NewRun(log_info), ServerResult, 0),
                              NoExc), FALSE)
    /\ UNCHANGED handlers
    /\ UNCHANGED OutsideHandlers

\* RequestQueue._request_callback_process for one new request
PreSendEvent ==
    /\ \E log_info \in BOOLEAN :
          LET r == callback(NewRun(log_info), "request", 0)
          IN  hlog' = Logged("request", r, r.exc.kind = "none" /\ ~done(r.st))
    /\ UNCHANGED handlers
    /\ UNCHANGED OutsideHandlers

NextHandlers ==
    \/ RegisterHandler
    \/ UpdateEvent
    \/ RpcErrorEvent
    \/ RpcResultEvent
    \/ PreSendEvent

SpecHandlers == Init /\ [][NextHandlers]_vars

(***************************************************************************)
(* The server salts: the cache of State (network/utils.py) and the         *)
(* server-salts table of the session store (session/sqlite_session.py).    *)
(***************************************************************************)
NumSalts == 2
MaxNow == 2
SaltLifetime == 1800

\* the values server_time() takes: early ones and ones a lifetime later
Times == (0..MaxNow) \cup {SaltLifetime + t : t \in 0..MaxNow}
\* the validity bounds the server announces for a salt
RowTimes == 0..(MaxNow + 1)
SaltIds == 1..NumSalts

Row(s, valid_since, valid_until) ==
    [salt |-> s, valid_since |-> valid_since, valid_until |-> valid_until]

\* BaseSqlite.add_server_salt: insert, or update the row of that salt
add_server_salt(table, s, valid_since, valid_until) ==
    {r \in table : r.salt # s} \cup {Row(s, valid_since, valid_until)}

\* BaseSqlite.get_server_salts_count: the table after the DELETE
get_server_salts_count(table, now) == {r \in table : ~(r.valid_until < now)}

SaltLog(op, now, before, value, until) ==
    [op |-> op, now |-> now, before |-> before, value |-> value,
     valid_until |-> until]

OutsideSalts == <<stateVars, histVars, queueVars, updVars, callVars, hdlVars,
                  entVars>>

\* State.set_server_salt
SetServerSalt ==
    /\ \E s \in SaltIds, now \in Times :
          /\ salt' = s
          /\ salt_valid_until' = now + SaltLifetime
    /\ UNCHANGED <<salts, salt_log>>
    /\ UNCHANGED OutsideSalts

AddServerSalt ==
    /\ \E s \in SaltIds, valid_since \in RowTimes, valid_until \in RowTimes :
          /\ valid_since < valid_until
          /\ salts' = add_server_salt(salts, s, valid_since, valid_until)
    /\ UNCHANGED <<salt, salt_valid_until, salt_log>>
    /\ UNCHANGED OutsideSalts

\* mutant: set_auth_key leaves the server salts alone
set_auth_key_keep(table) == table

\* BaseSqlite.set_auth_key: the table after "DELETE FROM server-salts"
set_auth_key(table) == {}

\* BaseSqlite.get_server_salts: every row as (salt, valid_since, valid_until)
get_server_salts(table) ==
    {<<r.salt, r.valid_since, r.valid_until>> : r \in table}

\* session.set_auth_key(auth_key, created_at) on a store that holds salts
SetAuthKey ==
    /\ salts # {}
    /\ salts' = set_auth_key(salts)
    /\ salt_log' = SaltLog("set_auth_key", 0, salt, Cardinality(salts), 0)
    /\ UNCHANGED <<salt, salt_valid_until>>
    /\ UNCHANGED OutsideSalts

GetServerSaltsCount ==
    /\ \E now \in Times :
          /\ salts' = get_server_salts_count(salts, now)
          /\ salt_log' = SaltLog("get_server_salts_count", now, salt,
                                 Cardinality(salts'), 0)
    /\ UNCHANGED <<salt, salt_valid_until>>
    /\ UNCHANGED OutsideSalts

\* session.get_server_salt(now)
SessionGetServerSalt ==
    /\ \E now \in Times :
       \E p \in get_server_salt(salts, now) :
          salt_log' = SaltLog("session.get_server_salt", now, salt, p[1], p[2])
    /\ UNCHANGED <<salts, salt, salt_valid_until>>
    /\ UNCHANGED OutsideSalts

\* state.get_server_salt() at server time now
StateGetServerSalt ==
    /\ \E now \in Times :
       \E o \in State_get_server_salt(salt, salt_valid_until, salts, now) :
          /\ salt' = o.salt
          /\ salt_valid_until' = o.salt_valid_until
          /\ salt_log' = SaltLog("state.get_server_salt", now, salt, o.value,
                                 o.salt_valid_until)
    /\ UNCHANGED salts
    /\ UNCHANGED OutsideSalts

NextSalts ==
    \/ SetServerSalt
    \/ AddServerSalt
    \/ SetAuthKey
    \/ GetServerSaltsCount
    \/ SessionGetServerSalt
    \/ StateGetServerSalt
    \/ StartHandshake
    \/ HandshakeCompleted

SpecSalts == Init /\ [][NextSalts]_vars

(***************************************************************************)
(* The entity cache (core/internal/cache_entities.py) over the entities    *)
(* table of the session store.  An Entity is [id, access_hash, min]: min   *)
(* tells whether it was built from a min object; access_hash 0 stands for  *)
(* 0 and for None.  The cache lists its entries from the least to the most *)
(* recently used.                                                          *)
(***************************************************************************)

EntityIds == 1..NumEntities
AccessHashes == {0, 5}

Entity(id, access_hash, min) ==
    [id |-> id, access_hash |-> access_hash, min |-> min]

\* the users and chats an update batch can carry
Peers == [type : {"User", "UserEmpty", "Channel", "ChannelForbidden"},
          id : EntityIds, access_hash : AccessHashes, min : BOOLEAN]

\* the state of the cache and of the entities table
CacheState(cache, rows) == [cache |-> cache, rows |-> rows]

Without(cache, id) == SelectSeq(cache, LAMBDA e : e.id # id)
Cached(cache, id) == \E i \in 1..Len(cache) : cache[i].id = id
Lookup(cache, id) ==
    (CHOOSE i \in 1..Len(cache) : cache[i].id = id) 

\* SqliteSession.upsert_entity: access_hash = COALESCE(new, old)
upsert_entity(rows, entity) ==
    [rows EXCEPT ![entity.id] = [row |-> TRUE, access_hash |-> entity.access_hash]]

\* SqliteSession.get_entity(id=id): the Entity of the row, or none
get_entity(rows, id) ==
    IF rows[id].row THEN {Entity(id, rows[id].access_hash, FALSE)} ELSE {}

\* CacheEntities.pop
pop(c, id, save) ==
    IF Cached(c.cache, id)
    THEN CacheState(Without(c.cache, id),
                    IF save THEN upsert_entity(c.rows, c.cache[Lookup(c.cache, id)])
                    ELSE c.rows)
    ELSE c

\* Cache.check: evict the least recently used entries over the bound; an
\* evicted entity is persisted to the session store
RECURSIVE check(_)
check(c) ==
    IF Len(c.cache) <= MaxCache THEN c
    ELSE check(pop(c, c.cache[1].id, TRUE))

\* Cache.add_or_update: the entry becomes the most recently used one
add_or_update(c, id, value, do_check) ==
    LET added == CacheState(Append(Without(c.cache, id), value), c.rows)
    IN  IF do_check THEN check(added) ELSE added

\* CacheEntities.get: the cache after the call and the entity returned
\* (the empty set for None)
cache_get(c, id) ==
    IF Cached(c.cache, id)
    THEN LET e == c.cache[Lookup(c.cache, id)]
         IN  [c |-> CacheState(Append(Without(c.cache, id), e), c.rows),
              result |-> {e}]
    ELSE LET result == get_entity(c.rows, id)
         IN  [c |-> IF result = {} THEN c
                    ELSE add_or_update(c, id, CHOOSE e \in result : TRUE, TRUE),
              result |-> result]

\* CacheEntities.add_users and add_chats for one user or chat
add_peer(c, peer) ==
    IF peer.type \in {"UserEmpty", "ChannelForbidden"}
    THEN check(pop(c, peer.id, FALSE))
    ELSE IF peer.access_hash # 0 /\ ~peer.min
         THEN check(add_or_update(c, peer.id,
                                  Entity(peer.id, peer.access_hash, peer.min), FALSE))
         ELSE check(c)

\* the entity part of Updates._get_update_state for a channel that has no
\* UpdateState yet
channel_entity(c, channel_id) ==
    LET got == cache_get(c, channel_id)
    IN  IF got.result = {}
        THEN add_or_update(got.c, channel_id, Entity(channel_id, 0, FALSE), TRUE)
        ELSE got.c

CurCache == CacheState(entities, entity_rows)

OutsideEntities == <<stateVars, histVars, queueVars, callVars, hdlVars,
                     cacheVars, saltVars>>
DispatcherRest == <<pending, timer, fetches, delivered, trace, steps>>

CacheBecomes(c) ==
    /\ entities' = c.cache
    /\ entity_rows' = c.rows

\* _process_updates hands the users and chats of a batch to the cache
AddPeer ==
    /\ \E peer \in Peers : CacheBecomes(add_peer(CurCache, peer))
    /\ UNCHANGED <<live, info, store, DispatcherRest>>
    /\ UNCHANGED OutsideEntities

\* a lookup of an entity by id
CacheGet ==
    /\ \E id \in EntityIds : CacheBecomes(cache_get(CurCache, id).c)
    /\ UNCHANGED <<live, info, store, DispatcherRest>>
    /\ UNCHANGED OutsideEntities

\* Updates._get_update_state(channel_id) with create
ChannelState ==
    /\ \E sid \in StateIds \ {COMMON} :
          /\ sid \notin live
          /\ CacheBecomes(channel_entity(CurCache, sid))
          /\ LET d == get_update_state(Cur, sid)
             IN  /\ live' = d.live
                 /\ info' = d.info
                 /\ store' = d.store
    /\ UNCHANGED DispatcherRest
    /\ UNCHANGED OutsideEntities

\* Updates._delete_update_state: the pts is saved with set_channel_pts,
\* which inserts the row of the channel if it has none
DeleteChannelState ==
    /\ \E sid \in live \ {COMMON} :
          /\ LET d == delete_update_state(Cur, sid)
             IN  /\ live' = d.live
                 /\ info' = d.info
                 /\ store' = d.store
                 /\ pending' = d.pending
                 /\ timer' = d.timer
          /\ entity_rows' = [entity_rows EXCEPT ![sid].row = TRUE]
    /\ UNCHANGED <<entities, fetches, delivered, trace, steps>>
    /\ UNCHANGED OutsideEntities

NextEntities ==
    \/ AddPeer
    \/ CacheGet
    \/ ChannelState
    \/ DeleteChannelState

SpecEntities == Init /\ [][NextEntities]_vars

\* the chats an Updates or UpdatesCombined batch can carry about a channel;
\* ChannelForbidden has no field left, the code never reads it there
ChatItems ==
    [type : {"Channel", "ChannelForbidden"}, id : 1..NumChan, left : BOOLEAN,
     access_hash : AccessHashes, min : {FALSE}]

\* the channels whose UpdateState is in Updates._channel_polling: the sources
\* only read that collection, so every content is possible
Pollings == SUBSET (1..NumChan)

\* mutant of prepare_chat: a channel the user has left keeps its UpdateState
prepare_chat_keep(d, item, polling) ==
    IF item.id \notin d.live
    THEN d
    ELSE IF item.type = "ChannelForbidden"
    THEN Traced(delete_update_state(d, item.id), "forbidden", item,
                d.info[item.id].pts)
    ELSE Traced(d, "kept", item, d.info[item.id].pts)

\* the body of the loop of Updates._prepare_updates for one item of
\* updates.chats; remove_channel_polling does nothing
prepare_chat(d, item, polling) ==
    IF item.id \notin d.live
    THEN d
    ELSE IF item.type = "ChannelForbidden"
    THEN Traced(delete_update_state(d, item.id), "forbidden", item,
                d.info[item.id].pts)
    ELSE IF ~item.left
    THEN Traced(d, "member", item, d.info[item.id].pts)
    ELSE IF item.id \notin polling
    THEN Traced(delete_update_state(d, item.id), "left", item,
                d.info[item.id].pts)
    ELSE Traced(d, "polled", item, d.info[item.id].pts)

\* Updates._prepare_updates: the UpdateStates side of the loop over
\* updates.chats
RECURSIVE prepare_updates(_, _, _)
prepare_updates(d, chats, polling) ==
    IF chats = <<>> THEN d
    ELSE prepare_updates(prepare_chat(d, Head(chats), polling), Tail(chats),
                         polling)

\* _entities.add_chats(*updates.chats)
RECURSIVE add_chats(_, _)
add_chats(c, chats) ==
    IF chats = <<>> THEN c
    ELSE add_chats(add_peer(c, Head(chats)), Tail(chats))

\* Updates._updates_dispatcher on a batch that carries chats and no updates
RecvChats ==
    \E item \in ChatItems : \E polling \in Pollings : \E date \in Dates :
        LET d == handle_seq_updates(
                     prepare_updates(Cur, <<item>>, polling),
                     [seq_start |-> 0, seq |-> 0, date |-> date,
                      updates |-> <<>>])
        IN  /\ steps < MaxSteps
            /\ steps' = steps + 1
            /\ live' = d.live
            /\ info' = d.info
            /\ store' = d.store
            /\ pending' = d.pending
            /\ timer' = d.timer
            /\ fetches' = d.fetches
            /\ delivered' = d.delivered
            /\ trace' = d.trace
            /\ CacheBecomes(add_chats(CurCache, <<item>>))
            /\ UNCHANGED OutsideEntities

\* the dispatcher restricted to the updates of channels, UpdateChannelTooLong
\* among them
NextChannel ==
    \/ RecvChannelUpdate
    \/ RecvChats
    \/ TimerFire
    \/ ChannelDifferenceReply

SpecChannel == Init /\ [][NextChannel]_vars

(***************************************************************************)
(* RequestQueue.add with pre-send handlers: _request_callback_process runs *)
(* Handlers._request_callback on the request and extends the deque with    *)
(* the request if it is not done then.                                     *)
(***************************************************************************)
MaxPreSend == 2

\* mutant of request_callback_process: the request is queued done or not
request_callback_process_all(dq, r, res) ==
    IF res.exc.kind = "none" THEN Append(dq, r) ELSE dq

\* RequestQueue._request_callback_process for request r, res being what
\* the request callback gave: an exception of the callback ends the task
\* before the deque is extended
request_callback_process(dq, r, res) ==
    IF res.exc.kind = "none" /\ ~done(res.st) THEN Append(dq, r) ELSE dq

\* on_request
RegisterRequestHandler ==
    /\ Len(handlers["request"]) < MaxPreSend
    /\ \E b \in Behaviours :
          handlers' = [handlers EXCEPT !["request"] = Append(@, b)]
    /\ hlog' = NoLog
    /\ UNCHANGED OutsideHandlers

\* EventHandler.stop() of a pre-send handler: execute skips it from now on
StopRequestHandler ==
    /\ \E i \in 1..Len(handlers["request"]) :
          /\ handlers["request"][i] # "skip"
          /\ handlers' = [handlers EXCEPT !["request"][i] = "skip"]
    /\ hlog' = NoLog
    /\ UNCHANGED OutsideHandlers

\* RequestQueue.add(request) for a new Request
PreSendAdd ==
    /\ Len(requests) < NumReq
    /\ \E log_info \in BOOLEAN, after \in {0, Len(requests)} :
          LET res == callback(NewRun(log_info), "request", 0)
              dq == request_callback_process(deque, Len(requests) + 1, res)
          IN  /\ hlog' = Logged("request", res, dq # deque)
              /\ requests' = Append(requests,
                    [query |-> "GetState", msg_id |-> 0, container_id |-> 0,
                     invoke_after |-> after, outcome |-> res.st.fut.state])
              /\ deque' = dq
              /\ returned' = Append(returned, 0)
    /\ UNCHANGED <<stateVars, histVars, wpc, length, buffer, frame, sent,
                   updVars, callVars, saltVars, entVars, cacheVars, handlers>>

NextPreSend ==
    \/ RegisterRequestHandler
    \/ StopRequestHandler
    \/ PreSendAdd
    \/ HandshakeCompleted
    \/ ResolvePop
    \/ ResolveQueueEmpty

SpecPreSend == Init /\ [][NextPreSend]_vars

\* C1: within one session every id generate_msg_id returns is greater than
\* every id it returned before, is a multiple of 4, and is the value of
\* last_msg_id after the call, whatever the clock readings were.
C1_MsgIdMonotonic ==
    /\ \A i \in 1..Len(ids) : ids[i] % 4 = 0
    /\ \A i \in 1..Len(ids) : \A j \in 1..Len(ids) : i < j => ids[i] < ids[j]
    /\ ids # <<>> => last_msg_id = ids[Len(ids)]

\* three ids, the first taken from the latest clock reading, the next two
\* generated while the clock stood still or went backwards
C1_Witness ==
    /\ Len(ids) >= 3
    /\ ids[1] = MaxTime * 2^MsgIdShift
    /\ ids[2] = ids[1] + 4
    /\ ids[3] = ids[2] + 4

\* the number of content-related calls among the first n calls
ContentBefore(n) == Cardinality({j \in 1..n : seqs[j][1]})

\* C2: the seqno of a content-related message is odd, of any other message
\* even, and seqno \div 2 is the number of content-related messages generated
\* before it; two content-related messages on a fresh session get 1 and 3 and
\* a following acknowledgement gets 4.
C2_SeqNoParity ==
    /\ \A i \in 1..Len(seqs) :
         /\ seqs[i][2] % 2 = (IF seqs[i][1] THEN 1 ELSE 0)
         /\ seqs[i][2] \div 2 = ContentBefore(i - 1)
    /\ (Len(seqs) >= 3 /\ seqs[1][1] /\ seqs[2][1] /\ ~seqs[3][1])
          => (seqs[1][2] = 1 /\ seqs[2][2] = 3 /\ seqs[3][2] = 4)

\* two content-related messages, then an acknowledgement
C2_Witness ==
    /\ Len(seqs) >= 3
    /\ seqs[1][1] /\ seqs[2][1] /\ ~seqs[3][1]
    /\ seqs[3][2] = 4

\* C3: the outer msg_id of every frame resolve() returns is a multiple of 4
\* and greater than the outer msg_id of every frame returned before, for
\* fresh requests and for re-queued requests that keep their msg_id.
C3_FramesIncreasing ==
    /\ \A i \in 1..Len(sent) : sent[i] % 4 = 0
    /\ \A i \in 1..Len(sent) : \A j \in 1..Len(sent) : i < j => sent[i] < sent[j]

\* the queries the handshake gate lets through
GateExempt == {"ReqPqMulti", "ReqDHParams", "SetClientDHParams", "BindTempAuthKey"}

\* C4: a request that resolve() dequeues while the handshake is not complete
\* and whose query is none of req_pq_multi, req_DH_params,
\* set_client_DH_params and auth.bindTempAuthKey has its future failed with
\* SecurityError.
C4_GateSecurityError ==
    (frame.kind = "unencrypted" /\ requests[frame.requests[1]].query \notin GateExempt)
        => requests[frame.requests[1]].outcome = "SecurityError"

\* an API call was dequeued before the handshake completed and failed
C4_Witness ==
    /\ frame.kind = "unencrypted"
    /\ requests[frame.requests[1]].query = "GetState"
    /\ requests[frame.requests[1]].outcome = "SecurityError"

\* the ids of the messages a dispatcher state lists as delivered
DeliveredIds(d) == [k \in 1..Len(d.delivered) |-> d.delivered[k].id]

\* the updates that entered the single-update path, in order
TraceUpdates(d) == [k \in 1..Len(d.trace) |-> d.trace[k].update]

\* the answers of getDifference that bring the messages L+1 .. last as
\* missing, with state.pts = pts: as updates with their own pts, or as
\* new_messages
MissingDifferences(L, last, pts) ==
    {[type |-> "Difference", state |-> [info[COMMON] EXCEPT !.pts = pts],
      other_updates |-> [k \in 1..(last - L) |-> UpdateNewMessage(L + k, L + k, 1)],
      new_messages |-> <<>>, new_encrypted_messages |-> <<>>],
     [type |-> "Difference", state |-> [info[COMMON] EXCEPT !.pts = pts],
      other_updates |-> <<>>,
      new_messages |-> [k \in 1..(last - L) |-> L + k],
      new_encrypted_messages |-> <<>>]}

\* C5: with state.pts = L and a single buffered update U with
\* U.pts - U.pts_count > L whose scheduled fetch is waiting for getDifference,
\* an answer that brings the missing updates and state.pts = U.pts makes the
\* dispatcher deliver the missing updates and then U, each once and in
\* increasing pts order, and leaves state.pts = U.pts.
C5_GapRecovery ==
    \A i \in 1..Len(fetches) : \A U \in pending[COMMON] :
        LET f == fetches[i]
            L == info[COMMON].pts
            last == U.pts - U.pts_count
        IN  ( /\ f.sid = COMMON /\ f.await = "GetDifference" /\ f.origin = "timer"
              /\ f.pts = L /\ L # 0
              /\ pending[COMMON] = {U} /\ U.pts # 0 /\ last > L )
            => \A difference \in MissingDifferences(L, last, U.pts) :
                   LET d2 == fetch_difference_reply(Cur, i, difference)
                   IN  /\ d2.info[COMMON].pts = U.pts
                       /\ DeliveredIds(d2) =
                              [k \in 1..(last - L) |-> L + k] \o <<U.id>>

\* C6: no StateId has two difference fetches in flight, and an update with
\* pts or qts that arrives for a StateId whose fetch is in flight is not
\* applied but put into the reordering buffer of the state (an update the
\* state has already applied is dropped).
C6_SingleFlight ==
    /\ \A sid \in StateIds :
           Cardinality({i \in 1..Len(fetches) : fetches[i].sid = sid}) <= 1
    /\ \A update \in PtsUpdates \cup QtsUpdates :
           LET sid == get_update_channel_id(update)
               d0 == get_update_state(Cur, sid)
               d2 == handle_single_update(Cur, update)
           IN  (\E i \in 1..Len(fetches) : fetches[i].sid = sid)
                  => /\ d2.delivered = <<>>
                     /\ d2.info = d0.info
                     /\ \/ update \in d2.pending[sid]
                        \/ d2.trace[1].path = "discard"

\* C7: _handle_pts_update on an update whose state has local = 0 or
\* local + pts_count = pts sets the pts of that state to the update's pts,
\* changes nothing else of the states, and hands the update to the update
\* handlers.
C7_PtsApply ==
    \A update \in PtsUpdates :
        LET sid == get_update_channel_id(update)
            d0 == get_update_state(Cur, sid)
            local == d0.info[sid].pts
            d2 == handle_pts_update(Cur, update)
        IN  (local = 0 \/ local + update.pts_count = update.pts)
               => /\ d2.info = [d0.info EXCEPT ![sid].pts = update.pts]
                  /\ d2.delivered = <<update>>

\* an update that continues the sequence of a state that already has a pts
\* was applied
C7_Witness ==
    /\ Len(trace) = 1
    /\ trace[1].path = "apply"
    /\ trace[1].update.pts # 0
    /\ trace[1].local # 0
    /\ trace[1].local + trace[1].update.pts_count = trace[1].update.pts
    /\ info[trace[1].update.channel_id].pts = trace[1].update.pts
    /\ delivered = <<trace[1].update>>

\* C8: _handle_pts_update on an update with local # 0 and
\* local + pts_count < pts adds the update to the reordering buffer of its
\* state, after which the fetch of that state is scheduled or running; the
\* pts of the state stays and the update is not handed to the handlers.
C8_PtsGap ==
    \A update \in PtsUpdates :
        LET sid == get_update_channel_id(update)
            d0 == get_update_state(Cur, sid)
            local == d0.info[sid].pts
            d2 == handle_pts_update(Cur, update)
        IN  (local # 0 /\ local + update.pts_count < update.pts)
               => /\ d2.pending[sid] = d0.pending[sid] \cup {update}
                  /\ d2.timer[sid] \/ OwnFetchRunning(d2, sid)
                  /\ d2.info = d0.info
                  /\ d2.delivered = <<>>

\* an update ahead of its state was buffered and the fetch scheduled
C8_Witness ==
    /\ Len(trace) = 1
    /\ trace[1].path = "gap"
    /\ trace[1].update.pts # 0
    /\ trace[1].local # 0
    /\ trace[1].update \in pending[trace[1].update.channel_id]
    /\ timer[trace[1].update.channel_id]
    /\ info[trace[1].update.channel_id].pts = trace[1].local
    /\ delivered = <<>>

C11_SeqOutOfSequence ==
    \A update \in Batches :
        LET d0 == get_update_state(Cur, COMMON)
            local_seq == d0.info[COMMON].seq
            d2 == handle_seq_updates(Cur, update)
        IN  /\ update.seq_start > local_seq + 1
               => /\ d2.trace = <<>>
                  /\ d2.delivered = <<>>
                  /\ d2.info = d0.info
                  /\ d2.pending = d0.pending
                  /\ IF d0.info[COMMON].pts > 0
                     THEN d2.fetches =
                            Append(d0.fetches,
                                   FetchTask(COMMON, d0.info[COMMON],
                                             "GetDifference", "direct"))
                     ELSE d2.fetches = d0.fetches
            /\ (update.seq_start # 0 /\ update.seq_start <= local_seq)
               => /\ d2.trace = <<>>
                  /\ d2.delivered = <<>>
                  /\ d2.info = d0.info
                  /\ d2.pending = d0.pending
                  /\ d2.fetches = d0.fetches
                  /\ d2.timer = d0.timer

\* a batch ahead of the local seq left a fetch of the common state waiting
\* and applied nothing
C11_Witness ==
    /\ Len(fetches) = 1
    /\ fetches[1].origin = "direct"
    /\ fetches[1].sid = COMMON
    /\ fetches[1].seq + 1 < MaxSeq
    /\ info[COMMON].seq = fetches[1].seq
    /\ trace = <<>>
    /\ delivered = <<>>

\* C12: _handle_short_update turns an UpdateShortMessage, an
\* UpdateShortChatMessage and an UpdateShortSentMessage into an
\* UpdateNewMessage with the pts and pts_count of the short update, which
\* goes through the pts path; the from_id of an outgoing UpdateShortMessage
\* is the id of the logged-in user, of an incoming one the user_id.
C12_ShortUpdates ==
    \A update \in ShortUpdates : \A me \in {0, SelfId} : \A got \in {0, SelfId} :
        \A build \in SentBuilds :
            LET d2 == handle_short_update(Cur, update, me, got, build)
            IN  (me # 0 \/ got # 0)
                   => /\ Len(d2.trace) = 1
                      /\ d2.trace[1].path \in {"apply", "discard", "gap"}
                      /\ d2.trace[1].update.type = "UpdateNewMessage"
                      /\ d2.trace[1].update.pts = update.pts
                      /\ d2.trace[1].update.pts_count = update.pts_count
                      /\ update.type = "UpdateShortMessage"
                            => d2.trace[1].update.from_id =
                                  IF update.out THEN SelfId ELSE update.user_id

C14_NoMigration ==
    /\ \A i \in 1..Len(stack) : stack[i].me # "user"
    /\ \A k \in 1..Len(observed) :
          observed[k].call.me = "user"
             => /\ observed[k].error = "SeeOtherError"
                /\ observed[k].dc = observed[k].call.dc
                /\ observed[k].call.migrated = 0
                /\ observed[k].call.resent = 0
                /\ \A j \in 1..Len(resends) : resends[j] # observed[k].call.query
                /\ migrations = <<>>
                      => (dc_id = 1 /\ auth_key = 0 /\ resends = <<>>)

\* the request failed with SeeOtherError, get_me() gave a user at once, and
\* the caller got the SeeOtherError with the session untouched
C14_Witness ==
    /\ stack = <<>>
    /\ Len(observed) = 1
    /\ observed[1].error = "SeeOtherError"
    /\ observed[1].dc = NumDC
    /\ observed[1].call.me = "user"
    /\ observed[1].call.query = "Query"
    /\ migrations = <<>>
    /\ resends = <<>>
    /\ dc_id = 1
    /\ auth_key = 0
    /\ authorized

\* C15: in each of the update, error, result and request dispatch loops, a
\* handler that raises StopPropagation is the last handler that loop
\* executes for its event, and StopPropagation does not leave the dispatch
\* function.
C15_StopPropagation ==
    /\ hlog.escaped # "StopPropagation"
    /\ \A a, b \in 1..Len(hlog.ran) :
          (a < b /\ hlog.ran[a].call = hlog.ran[b].call)
             => handlers[hlog.ran[a].loop][hlog.ran[a].handler] # "StopPropagation"

\* a handler raised StopPropagation while a later handler of its list was
\* ready to take the event
C15_Witness ==
    \E a \in 1..Len(hlog.ran) :
       LET kind == hlog.ran[a].loop
           i == hlog.ran[a].handler
       IN  /\ handlers[kind][i] = "StopPropagation"
           /\ i < Len(handlers[kind])
           /\ handlers[kind][i + 1] # "skip"

\* what the first error handler that does not just return decides for the
\* caller of a request the server answered with ServerError
RECURSIVE ErrorOutcome(_)
ErrorOutcome(i) ==
    IF i > Len(handlers["error"]) THEN Future("exception", ServerError)
    ELSE LET b == handlers["error"][i]
         IN  CASE b \in {"skip", "return", "Exception"} -> ErrorOutcome(i + 1)
               [] b = "StopPropagation" -> Future("exception", ServerError)
               [] b = "set_result" -> Future("result", HandlerResult)
               [] b \in {"set_exception", "BaseError"} ->
                     Future("exception", HandlerError)
               [] b \in {"set_rpc_error", "RpcError"} ->
                     Future("exception", HandlerRpcError)

\* the error handlers the loop for the server's error may reach: up to the
\* first that completes the request or stops the propagation
RECURSIVE ErrorReach(_)
ErrorReach(i) ==
    IF i > Len(handlers["error"]) THEN {}
    ELSE IF handlers["error"][i] \in {"skip", "return", "Exception"}
         THEN {i} \cup ErrorReach(i + 1)
         ELSE {i}

\* no result handler completes the request by itself
ResultHandlersPassive ==
    \A i \in 1..Len(handlers["result"]) :
       handlers["result"][i] \in {"skip", "return", "StopPropagation", "Exception"}

ErrorHandlersDecide ==
    hlog.event = "error" =>
       /\ hlog.fut = ErrorOutcome(1)
       /\ \A a \in 1..Len(hlog.ran) :
             (hlog.ran[a].loop = "error" /\ hlog.ran[a].call = 1)
                => hlog.ran[a].handler \in ErrorReach(1)

\* C16 (amended): when Request.set_exception is called with an RpcError the
\* on_error handlers run before the future is completed, and as long as no
\* result handler completes the request inside set_result, the first
\* handler that acts decides what the caller observes: x after
\* set_result(x), y after set_exception(y) or a raised BaseError y, the
\* original RpcError when no handler completes the request; no later error
\* handler runs for that error.
C16_ErrorHandlers == ResultHandlersPassive => ErrorHandlersDecide

\* C16 as stated: the same for any result handlers
C16_ErrorHandlersAlways == ErrorHandlersDecide

\* an error handler replaced the error by a result and the handler after it
\* was not asked
C16_Witness ==
    /\ hlog.event = "error"
    /\ ResultHandlersPassive
    /\ Len(handlers["error"]) >= 2
    /\ handlers["error"][1] = "set_result"
    /\ handlers["error"][2] # "skip"
    /\ hlog.fut = Future("result", HandlerResult)

\* C17: State.get_server_salt, called when the cached salt has expired and
\* the session store holds no salt valid at that time, returns the salt
\* that was cached before the call.
C17_LastKnownSalt ==
    \A now \in Times :
       (salt_valid_until <= now /\ get_server_salt(salts, now) = {<<0, 0>>})
          => \A o \in State_get_server_salt(salt, salt_valid_until, salts, now) :
                o.value = salt

\* C18 (amended): get_server_salt(now) of the session store returns either
\* (0, 0), when the store holds no salt valid at now, or a pair
\* (salt, valid_until) with valid_until > now.
C18_SaltValid ==
    \A now \in Times :
       \A p \in get_server_salt(salts, now) :
          p = <<0, 0>> \/ p[2] > now

\* C18 as stated: every returned pair has valid_until > now
C18_SaltValidAlways ==
    \A now \in Times :
       \A p \in get_server_salt(salts, now) : p[2] > now

\* the store returned a salt while it also held a salt that had expired
C18_Witness ==
    /\ salt_log.op = "session.get_server_salt"
    /\ salt_log.value # 0
    /\ salt_log.valid_until > salt_log.now
    /\ \E r \in salts : r.valid_until <= salt_log.now

\* C19: in every reachable state of the dispatcher every entry of the
\* entity cache has a non-zero access_hash and came from a non-min object.
C19_EntityCache ==
    \A i \in 1..Len(entities) :
       entities[i].access_hash # 0 /\ ~entities[i].min

C21_SaltsCleared ==
    LET table == set_auth_key(salts)
    IN  /\ get_server_salts(table) = {}
        /\ \A now \in Times : get_server_salt(table, now) = {<<0, 0>>}

\* set_auth_key was called on a store that held salts
C21_Witness ==
    /\ salt_log.op = "set_auth_key"
    /\ salt_log.value > 0
    /\ get_server_salts(salts) = {}

\* C22: whenever an UpdateChannelTooLong for channel c reaches the
\* single-update path, with or without a pts and whatever the local pts of
\* c, a fetch of the channel difference of c is started at once: the step
\* leaves a new GetChannelDifference for c in flight and has not handed the
\* update to the handlers.
C22_TooLongFetches ==
    \A update \in TooLongUpdates :
       LET d == handle_single_update(Cur, update)
       IN  /\ Len(d.fetches) = Len(fetches) + 1
           /\ d.fetches[Len(d.fetches)].sid = update.channel_id
           /\ d.fetches[Len(d.fetches)].await = "GetChannelDifference"
           /\ \A k \in 1..Len(d.delivered) : d.delivered[k] # update

C24_ContainerOrDirect ==
    [][sent' # sent =>
        LET f == frame'
            n == Len(f.requests)
        IN  /\ n >= 1
            /\ n = 1 =>
                  /\ ~f.container
                  /\ f.msg_id = requests'[f.requests[1]].msg_id
                  /\ f.kind = "encrypted" => f.seqno = f.messages[1].seqno
            /\ n >= 2 =>
                  /\ f.container
                  /\ f.kind = "encrypted"
                  /\ f.msg_id > last_msg_id
                  /\ f.msg_id = last_msg_id'
                  /\ \A k \in 1..Len(sent) : sent[k] # f.msg_id
                  /\ \A i \in 1..n : f.messages[i].msg_id < f.msg_id
                  /\ f.seqno % 2 = 0
                  /\ \A i \in 1..n :
                        requests'[f.requests[i]].container_id = f.msg_id]_vars

C24_Witness ==
    /\ frame.container
    /\ Len(frame.requests) = 2
    /\ last_msg_id = frame.msg_id
    /\ \A i \in 1..2 : requests[frame.requests[i]].container_id = frame.msg_id
    /\ frame.seqno % 2 = 0

\* C25: a request B with invoke_after = A that resolve() packs into an
\* encrypted frame is emitted as InvokeAfterMsg(A.msg_id, B.query) with the
\* msg_id of A, under the msg_id of B, and with the seqno of B's own query:
\* odd exactly when that query is content-related.
C25_InvokeAfterWrapped ==
    [][sent' # sent /\ frame'.kind = "encrypted" =>
        \A i \in 1..Len(frame'.requests) :
            LET B == requests'[frame'.requests[i]]
            IN  B.invoke_after # 0 =>
                  /\ requests'[B.invoke_after].msg_id # 0
                  /\ frame'.queries[i] =
                        <<"InvokeAfterMsg", requests'[B.invoke_after].msg_id,
                          B.query>>
                  /\ frame'.messages[i].msg_id = B.msg_id
                  /\ (frame'.messages[i].seqno % 2 = 1)
                        <=> is_content_related(B.query)]_vars

C25_Witness ==
    /\ frame.kind = "encrypted"
    /\ \E i \in 1..Len(frame.requests) :
          LET B == requests[frame.requests[i]]
          IN  /\ B.invoke_after # 0
              /\ B.query = "MsgsAck"
              /\ frame.queries[i] =
                    <<"InvokeAfterMsg", requests[B.invoke_after].msg_id, B.query>>
              /\ frame.messages[i].seqno % 2 = 0
              /\ B.msg_id # requests[B.invoke_after].msg_id

\* the lengths of a serialized body and of its packed form around
\* MIN_SIZE_GZIP
GzipLengths == {48, MIN_SIZE_GZIP - 1, MIN_SIZE_GZIP, MIN_SIZE_GZIP + 1, 600, 700}

\* C26: to_message takes the packed body exactly when the body is longer than
\* MIN_SIZE_GZIP, the message is content-related and the packed form is
\* strictly shorter; otherwise the body goes unchanged.  The length it
\* records never exceeds the length of the body, and in every frame
\* resolve() returns neither a container nor a message of a query that is
\* not content-related (an ack) is packed.
C26_GzipOnlyWhenSmaller ==
    /\ \A body_len \in GzipLengths : \A packed_len \in GzipLengths :
       \A content_related \in BOOLEAN :
          LET message == to_message(last_msg_id, body_len, packed_len,
                                    content_related, last_msg_seqno)
          IN  /\ message.gzip <=> /\ body_len > MIN_SIZE_GZIP
                                   /\ content_related
                                   /\ packed_len < body_len
              /\ message.bytes = IF message.gzip THEN packed_len ELSE body_len
              /\ message.bytes <= body_len
    /\ frame.container => ~frame.gzip
    /\ \A i \in 1..Len(frame.messages) :
          frame.messages[i].gzip
              => is_content_related(requests[frame.requests[i]].query)

C26_Witness ==
    /\ frame.kind = "encrypted"
    /\ \E i \in 1..Len(frame.messages) : frame.messages[i].gzip
    /\ \E i \in 1..Len(frame.messages) :
          /\ ~frame.messages[i].gzip
          /\ requests[frame.requests[i]].query = "MsgsAck"

\* C27: for every local qts and every update with a qts, _handle_qts_update
\* applies (the qts of the common state becomes the update's, the update is
\* delivered) iff local_qts = 0 or local_qts + 1 = qts, discards (nothing
\* delivered, state_info unchanged) iff local_qts # 0 and local_qts + 1 > qts,
\* and buffers (nothing delivered, state_info unchanged) iff local_qts # 0
\* and local_qts + 1 < qts; that is the branch _handle_pts_update takes on a
\* common state whose pts is local_qts for an update with that pts and
\* pts_count 1.  No channel state and no pts changes.
C27_QtsLikePts ==
    \A update \in QtsUpdates :
        LET d0 == get_update_state(Cur, COMMON)
            d2 == handle_qts_update(Cur, update)
            qts == update.qts
            local_qts == d0.info[COMMON].qts
            asPts == handle_pts_update(
                         [d0 EXCEPT !.info[COMMON].pts = local_qts],
                         UpdateNewMessage(update.id, qts, 1))
        IN  /\ Len(d2.trace) = 1
            /\ d2.trace[1].path \in {"apply", "discard", "gap"}
            /\ d2.trace[1].path = "apply"
                   <=> (local_qts = 0 \/ local_qts + 1 = qts)
            /\ d2.trace[1].path = "discard"
                   <=> (local_qts # 0 /\ local_qts + 1 > qts)
            /\ d2.trace[1].path = "gap"
                   <=> (local_qts # 0 /\ local_qts + 1 < qts)
            /\ d2.trace[1].path = "apply"
                   => /\ d2.info[COMMON] = [d0.info[COMMON] EXCEPT !.qts = qts]
                      /\ d2.delivered = <<update>>
            /\ d2.trace[1].path = "discard"
                   => /\ d2.info = d0.info
                      /\ d2.delivered = <<>>
                      /\ update \notin d2.pending[COMMON]
            /\ d2.trace[1].path = "gap"
                   => /\ d2.info = d0.info
                      /\ d2.delivered = <<>>
                      /\ update \in d2.pending[COMMON]
            /\ asPts.trace[1].path = d2.trace[1].path
            /\ asPts.info[COMMON].pts = d2.info[COMMON].qts
            /\ \A sid \in StateIds \ {COMMON} :
                  /\ d2.info[sid] = info[sid]
                  /\ d2.pending[sid] = pending[sid]
                  /\ d2.store[sid] = store[sid]
                  /\ (sid \in d2.live) <=> (sid \in live)

C27_Witness ==
    /\ Len(trace) = 1
    /\ trace[1].update.qts # 0
    /\ trace[1].path = "apply"
    /\ trace[1].local # 0
    /\ trace[1].local + 1 = trace[1].update.qts
    /\ info[COMMON].qts = trace[1].update.qts
    /\ delivered = <<trace[1].update>>

\* the running fetches of the common state that await the answer to
\* GetDifference and have nothing to replay when they return
PlainFetches ==
    {i \in 1..Len(fetches) :
        /\ fetches[i].sid = COMMON
        /\ fetches[i].await = "GetDifference"
        /\ fetches[i].origin = "direct"}

\* C28: a fetch of the common state sends a further getDifference iff the
\* answer was a DifferenceSlice, with the pts, qts and date of its
\* intermediate_state; after DifferenceEmpty it has ended and only seq and
\* date of the common state changed, after DifferenceTooLong it has ended
\* and only pts changed, after Difference it has ended and the state is
\* diff.state plus what the dispatch of its updates did to seq and date,
\* after a PersistentTimestamp error it asks for GetState and commits the
\* answer; with a local pts <= 0 no fetch is started.
C28_FetchDifferenceCommits ==
    /\ \A i \in PlainFetches : \A difference \in Differences :
          LET d2 == fetch_difference_reply(Cur, i, difference)
              goes == /\ Len(d2.fetches) >= Len(fetches)
                      /\ d2.fetches[i].await = "GetDifference"
          IN  /\ goes <=> difference.type = "DifferenceSlice"
              /\ goes => /\ d2.fetches[i].pts = difference.state.pts
                         /\ d2.fetches[i].qts = difference.state.qts
                         /\ d2.fetches[i].date = difference.state.date
              /\ difference.type = "DifferenceEmpty"
                    => d2.info[COMMON] =
                          [info[COMMON] EXCEPT !.seq = difference.state.seq,
                                               !.date = difference.state.date]
              /\ difference.type = "DifferenceTooLong"
                    => d2.info[COMMON] =
                          [info[COMMON] EXCEPT !.pts = difference.state.pts]
              /\ difference.type = "Difference"
                    => d2.info[COMMON] = difference.state
              /\ difference.type = "PersistentTimestampInvalidError"
                    => /\ d2.fetches[i].await = "GetState"
                       /\ \A state \in States : state.type = "State" =>
                             fetch_difference_reply(d2, i, state).info[COMMON]
                                 = state.state
    /\ info[COMMON].pts <= 0 => fetch_difference(Cur, "direct").fetches = fetches

\* C29: when the answer to GetChannelDifference is ChannelDifferenceEmpty the
\* fetch commits diff.pts, when it is ChannelDifferenceTooLong it commits
\* dialog.pts (the pts of the answer in the model): the pts is saved to the
\* store and is the pts of the channel's UpdateState; when the RPC raises
\* ChannelInvalidError or ChannelPrivateError the fetch returns with the
\* state map holding no entry for the channel, and its caller goes on (the
\* UpdateChannelTooLong that asked for the fetch is delivered).
C29_ChannelFetchEnds ==
    \A i \in 1..Len(fetches) :
        LET f == fetches[i]
            sid == f.sid
        IN  (sid # COMMON /\ f.rest = {} /\ pending[sid] = {}) =>
            \A difference \in ChannelDifferences(sid) :
                LET d2 == fetch_channel_difference_reply(Cur, i, difference)
                IN  /\ difference.type \in {"ChannelDifferenceEmpty",
                                            "ChannelDifferenceTooLong"}
                       => /\ d2.store[sid].pts = difference.pts
                          /\ sid \in live => d2.info[sid].pts = difference.pts
                          /\ Len(d2.fetches) = Len(fetches) - 1
                    /\ difference.type \in {"ChannelInvalidError",
                                            "ChannelPrivateError"}
                       => /\ sid \notin d2.live
                          /\ Len(d2.fetches) = Len(fetches) - 1
                          /\ d2.delivered = f.then

C29_Witness ==
    /\ Len(trace) = 1
    /\ trace[1].path = "gone"
    /\ trace[1].update.type = "ChannelPrivateError"
    /\ \A sid \in StateIds \ {COMMON} : sid \notin live
    /\ Len(delivered) = 1
    /\ delivered[1].type = "UpdateChannelTooLong"

\* the handlers that complete the request they are executed for
Completing == {"BaseError", "RpcError", "set_result", "set_exception",
               "set_rpc_error"}

\* C30: a request that a pre-send handler completed, by raising a BaseError
\* or by setting a result or an exception on it, is not in the deque nor in
\* the buffer of resolve(), has no msg_id and no container_id and was never
\* returned by resolve(); add() did not queue it, and no pre-send handler
\* after the completing one was executed for it.
C30_CompletedNeverSent ==
    /\ \A r \in 1..Len(requests) :
          requests[r].outcome \in {"result", "exception"}
             => /\ ~InDeque(r)
                /\ ~InBuffer(r)
                /\ requests[r].msg_id = 0
                /\ requests[r].container_id = 0
                /\ returned[r] = 0
    /\ (hlog.event = "request" /\ hlog.fut.state # "pending") => ~hlog.queued
    /\ \A a, b \in 1..Len(hlog.ran) :
          (a < b /\ hlog.ran[a].loop = "request" /\ hlog.ran[b].loop = "request")
             => handlers["request"][hlog.ran[a].handler] \notin Completing

C30_Witness ==
    /\ Len(requests) = 2
    /\ returned[1] > 0
    /\ requests[1].msg_id # 0
    /\ requests[2].outcome = "result"
    /\ requests[2].msg_id = 0
    /\ returned[2] = 0
    /\ hlog.event = "request"
    /\ ~hlog.queued
    /\ Len(handlers["request"]) = 2
    /\ handlers["request"][1] = "set_result"
    /\ handlers["request"][2] = "return"
    /\ Len(hlog.ran) = 1

\* C31: every frame resolve() returns while the handshake is not complete
\* carries only req_pq_multi, req_DH_params, set_client_DH_params or
\* auth.bindTempAuthKey, and no request of it was rejected with
\* SecurityError.
C31_GateKeepsRejectedBack ==
    [][(sent' # sent /\ ~handshake) =>
        \A i \in 1..Len(frame'.requests) :
            /\ requests'[frame'.requests[i]].query \in GateExempt
            /\ requests'[frame'.requests[i]].outcome # "SecurityError"]_vars

\* C32: the pts of a state never decreases; in particular, when a fetch of
\* a state is suspended on GetDifference or GetChannelDifference and an
\* update was applied to the state meanwhile, the commit of the fetch (for
\* an answer that brings no pts of its own: DifferenceEmpty, or an error of
\* the RPC) leaves the pts of the state at least what it is.
C32_PtsNeverDecreases ==
    \A i \in 1..Len(fetches) :
        LET f == fetches[i]
            sid == f.sid
        IN  (sid \in live /\ f.await # "GetState") =>
            IF sid = COMMON
            THEN \A difference \in Differences :
                    difference.type \in {"DifferenceEmpty", "RpcError"} =>
                        fetch_difference_reply(Cur, i, difference).info[sid].pts
                            >= info[sid].pts
            ELSE \A difference \in ChannelDifferences(sid) :
                    difference.type = "RpcError" =>
                        fetch_channel_difference_reply(Cur, i, difference)
                            .info[sid].pts >= info[sid].pts

\* C33: no request is lost after resolve() has popped it: a request that
\* was popped (it has its msg_id) is in the buffer of the running resolve()
\* call or was returned by a resolve() call, also when the handshake flag
\* changed between two pops of one call.
C33_PoppedIsReturned ==
    \A r \in 1..Len(requests) :
        requests[r].msg_id # 0 => (InBuffer(r) \/ returned[r] > 0)

\* C34: when resolve() wraps the request B it pops next in InvokeAfterMsg
\* for its invoke_after request A, the msg_id of A is assigned and is
\* strictly smaller than the msg_id of B, also when A was completed by a
\* pre-send handler and never entered the queue.
C34_InvokeAfterAssigned ==
    (deque # <<>> /\ handshake) =>
        LET B == requests[Head(deque)]
        IN  B.invoke_after # 0 =>
              \A server_time \in 0..MaxTime :
                 LET msg_id == resolve_msg_id(B.msg_id, server_time, last_msg_id)
                     query == wrap_query([B EXCEPT !.msg_id = msg_id], requests)
                 IN  /\ query[2] # 0
                     /\ query[2] < msg_id

\* C35: in every container resolve() produces the container's msg_id is
\* greater than the msg_id of each inner message, and a request sent alone,
\* without a container, has container_id None after resolve(), also when it
\* was part of a container in an earlier pass.
C35_ContainerIdCurrent ==
    [][sent' # sent =>
        LET f == frame'
        IN  /\ f.container =>
                  \A i \in 1..Len(f.messages) : f.messages[i].msg_id < f.msg_id
            /\ ~f.container =>
                  \A i \in 1..Len(f.requests) :
                      requests'[f.requests[i]].container_id = 0]_vars

\* the calls that complete a request: set_result(result), set_exception of
\* an RpcError and of another error
Completions == {"set_result", "set_rpc_error", "set_exception"}
Complete(st, call) ==
    CASE call = "set_result"    -> request_set_result(st, ServerResult, 0)
      [] call = "set_rpc_error" -> request_set_exception(st, ServerError, 0)
      [] call = "set_exception" -> request_set_exception(st, HandlerError, 0)

\* C36: the future of a Request is completed at most once: for every
\* sequence of set_result and set_exception calls, calls made inside the
\* result and error callbacks included, the first value stored is what the
\* awaiting caller observes, and every later call leaves it unchanged.
C36_CompletedOnce ==
    \A log_info \in BOOLEAN : \A first \in Completions, second \in Completions,
                                 third \in Completions :
        LET s1 == Complete(NewRun(log_info), first)
            s2 == Complete(s1, second)
            s3 == Complete(s2, third)
        IN  /\ done(s1)
            /\ Len(s1.completed) = 1 /\ s1.fut = s1.completed[1]
            /\ s2.fut = s1.fut /\ s2.completed = s1.completed
            /\ s3.fut = s1.fut /\ s3.completed = s1.completed

\* the server's result arrived at a request that a result handler had
\* completed with its own value, inside the result callback
C36_Witness ==
    /\ hlog.event = "result"
    /\ hlog.fut = Future("result", HandlerResult)
    /\ Len(hlog.ran) >= 1
    /\ \E i \in 1..Len(handlers["result"]) : handlers["result"][i] = "set_result"

\* C37: when _handle_updates_too_long completes with drop_update false, each
\* of pts, qts and seq of the common state is at least the value the
\* difference fetch it ran committed.
C37_TooLongNotOlder ==
    \A i \in 1..Len(fetches) :
        LET f == fetches[i]
        IN  (f.sid = COMMON /\ f.origin = "too_long") =>
              \A difference \in (IF f.await = "GetState" THEN States
                                 ELSE Differences) :
                 LET fetched == fetch_difference_reply(
                                    [Cur EXCEPT !.fetches[i].origin = "direct"],
                                    i, difference).info[COMMON]
                     after == fetch_difference_reply(Cur, i, difference).info[COMMON]
                 IN  /\ after.pts >= fetched.pts
                     /\ after.qts >= fetched.qts
                     /\ after.seq >= fetched.seq

\* C38: the seq of the common state never decreases when _handle_seq_updates
\* handles a batch, UpdatesCombined batches with seq_start = 0 and a
\* non-zero seq and the batches _fetch_difference builds included.
C38_SeqNeverDecreases ==
    \A update \in Batches :
        LET local_seq == get_update_state(Cur, COMMON).info[COMMON].seq
        IN  handle_seq_updates(Cur, update).info[COMMON].seq >= local_seq

\* the answers of its RPC after which a fetch ends
FetchEnds(f, difference) ==
    IF f.await = "GetState" THEN TRUE
    ELSE /\ difference.type # "DifferenceSlice"
         /\ difference.type \notin {"PersistentTimestampEmptyError",
                                    "PersistentTimestampInvalidError"}
         /\ difference.type = "ChannelDifference" => difference.final

\* what _save_state(state_info) leaves in the session store: the pts of a
\* channel, and of the common state each value that is not 0
Saved(after, state_info, sid) ==
    IF sid = COMMON
    THEN /\ state_info.pts # 0 => after.pts = state_info.pts
         /\ state_info.qts # 0 => after.qts = state_info.qts
         /\ state_info.seq # 0 => after.seq = state_info.seq
         /\ state_info.date # 0 => after.date = state_info.date
    ELSE after.pts = state_info.pts

\* C39: whenever _fetch_difference or _fetch_channel_difference ends,
\* normally, by the early skip or by an exception of the RPC, the final
\* in-memory state_info has gone to the session store through _save_state;
\* _delete_update_state saves the pts of a state and removes the state.
C39_FetchEndSaves ==
    /\ \A i \in 1..Len(fetches) :
          LET f == fetches[i]
              sid == f.sid
              d0 == [Cur EXCEPT !.fetches[i].origin = "direct",
                                !.fetches[i].then = <<>>,
                                !.fetches[i].rest = {}]
          IN  \A difference \in (IF sid # COMMON THEN ChannelDifferences(sid)
                                 ELSE IF f.await = "GetState" THEN States
                                 ELSE Differences) :
                 LET d2 == IF sid = COMMON
                           THEN fetch_difference_reply(d0, i, difference)
                           ELSE fetch_channel_difference_reply(d0, i, difference)
                 IN  (FetchEnds(f, difference) /\ sid \in d2.live) =>
                        Saved(d2.store[sid], d2.info[sid], sid)
    /\ (COMMON \in live /\ info[COMMON].pts <= 0) =>
          LET d2 == fetch_difference(Cur, "direct")
          IN  /\ d2.fetches = fetches
              /\ Saved(d2.store[COMMON], d2.info[COMMON], COMMON)
    /\ \A sid \in live \ {COMMON} :
          LET d2 == delete_update_state(Cur, sid)
          IN  /\ d2.store[sid].pts = info[sid].pts
              /\ sid \notin d2.live

\* a fetch of the common state has ended and the store holds the state it
\* left in memory
C39_Witness ==
    /\ fetches = <<>>
    /\ COMMON \in live
    /\ store[COMMON].pts # 0
    /\ store[COMMON] = info[COMMON]

\* the update handlers _update_callback executes from handler i of
\* get_handlers('update') on: every handler that is not skipped, up to the
\* first one that raises StopPropagation
RECURSIVE UpdateRuns(_)
UpdateRuns(i) ==
    IF i > Len(get_handlers("update")) THEN <<>>
    ELSE LET b == get_handlers("update")[i]
             entry == [loop |-> handler_list("update", i), call |-> 1,
                       handler |-> handler_index("update", i)]
         IN  IF b = "skip" THEN UpdateRuns(i + 1)
             ELSE IF b = "StopPropagation" THEN <<entry>>
             ELSE <<entry>> \o UpdateRuns(i + 1)

\* C40: in _update_callback an exception other than StopPropagation raised
\* by an update handler or by its filter does not stop the dispatch: every
\* later handler, the local ones first and then the global ones, each in
\* registration order, is executed for the update, stopped handlers are
\* skipped, and no exception leaves _update_callback.
C40_UpdateDispatchGoesOn ==
    hlog.event = "update" =>
        /\ hlog.escaped = "none"
        /\ hlog.ran = UpdateRuns(1)

\* a local update handler raised an exception and a global handler was
\* executed after it for the same update
C40_Witness ==
    /\ hlog.event = "update"
    /\ \E a, b \in 1..Len(hlog.ran) :
          /\ a < b
          /\ hlog.ran[a].loop = "update"
          /\ handlers["update"][hlog.ran[a].handler] \in {"BaseError", "Exception"}
          /\ hlog.ran[b].loop = "global_update"

====
